---------------------------- MODULE Spec2Model ----------------------------
(***************************************************************************)
(* reba: virtual-domain mail forwarding for SES.                           *)
(*                                                                         *)
(* The module models the rule resolution engine (processRules and its      *)
(* predecessor processAliases), the raw message rewrite (processMessage)   *)
(* and the Lambda handler that drives them, then the handler and the       *)
(* message rewrite of the two earlier revisions.  JavaScript strings are   *)
(* TLA+ strings; a character is a string of length one.                    *)
(***************************************************************************)
EXTENDS Naturals, Sequences, FiniteSets, TLC

VARIABLES
    pc,                 \* position of the running function / handler
    config,             \* the imported configuration (rules, aliases, globalRules)
    event,              \* the inbound SES event (recipients as received, subject)
    origRecipients,     \* processRules / processAliases argument
    subject,            \* processRules argument, a JavaScript value
    recipientIndex,     \* number of forEach callbacks already run
    matched,            \* local `matched` at the end of the last callback
    ruleIndex,          \* index (from 1) of the rule that set `matched`, 0 if none
    rejected,           \* local `rejected` at the end of the last callback
    newRecipients,      \* local of processRules, first returned value
    firstOrigRecipient, \* local of processRules, second returned value
    origMessage,        \* processMessage argument / handler local
    lines,              \* origMessage.split('\r\n')
    lineIndex,          \* loop counter of processMessage (from 0)
    headers,            \* the headers object: kept lower-case names and values
    newMessageLines,    \* output lines
    currentHeader,      \* buffered raw lines of the header being read
    inHeaders,          \* header mode / body mode
    origFrom,           \* value of the From header that was rewritten
    result,             \* outcome of processMessage
    suppressSend,       \* process.env.SuppressSend === 'yes'
    s3Url,              \* handler local
    error,              \* message of the error last thrown in the handler
    calls,              \* invocations of fetchMessage, forwardMessage, reportError
    disposition         \* disposition the handler returned, "none" before

vars == <<pc, config, event, origRecipients, subject, recipientIndex, matched,
          ruleIndex, rejected, newRecipients, firstOrigRecipient, origMessage,
          lines, lineIndex, headers, newMessageLines, currentHeader, inHeaders,
          origFrom, result, suppressSend, s3Url, error, calls, disposition>>

rulesVars == <<origRecipients, subject, recipientIndex, matched, ruleIndex,
               rejected, newRecipients, firstOrigRecipient>>

messageVars == <<origMessage, lines, lineIndex, headers, newMessageLines,
                 currentHeader, inHeaders, origFrom, result>>

handlerVars == <<event, suppressSend, s3Url, error, calls, disposition>>

(***************************************************************************)
(* Bounds of the model.                                                    *)
(***************************************************************************)
MaxRules == 2
MaxRecipients == 2
MaxHeaderLines == 3

(***************************************************************************)
(* JavaScript strings.                                                     *)
(*                                                                         *)
(* A string of the model is a string of ASCII characters (code units 0x00  *)
(* to 0x7F).  A TLA+ string has no escape for a character outside ASCII,   *)
(* and TLC reads such a character written in a module by the platform's    *)
(* encoding: as one character, as one unreadable character per byte, or    *)
(* not at all.  The character classes below (LowerOf, WhiteSpace,          *)
(* LineTerminators) are therefore the ASCII members of the classes of the  *)
(* code, and the operators built on them are the code's on ASCII strings.  *)
(***************************************************************************)
charAt(s, i) == SubSeq(s, i, i)

Range(f) == {f[i] : i \in DOMAIN f}

\* the lower-case letter of each upper-case letter A-Z, the ASCII characters
\* String.prototype.toLowerCase changes
LowerOf ==
    LET upperCase == "ABCDEFGHIJKLMNOPQRSTUVWXYZ"
        lowerCase == "abcdefghijklmnopqrstuvwxyz"
    IN [c \in {charAt(upperCase, i) : i \in 1..26} |->
           charAt(lowerCase, CHOOSE i \in 1..26 : charAt(upperCase, i) = c)]

\* any other character is kept
lowerChar(c) == IF c \in DOMAIN LowerOf THEN LowerOf[c] ELSE c

RECURSIVE toLowerCase(_)
toLowerCase(s) ==
    IF s = "" THEN "" ELSE lowerChar(Head(s)) \o toLowerCase(Tail(s))

\* String.prototype.indexOf from position `from` (from 1); 0 when absent
RECURSIVE indexOf(_, _, _)
indexOf(s, sub, from) ==
    IF from + Len(sub) - 1 > Len(s) THEN 0
    ELSE IF SubSeq(s, from, from + Len(sub) - 1) = sub THEN from
    ELSE indexOf(s, sub, from + 1)

\* String.prototype.includes
includes(s, sub) == indexOf(s, sub, 1) # 0

\* String.prototype.split with a non-empty separator
RECURSIVE split(_, _)
split(s, sep) ==
    LET i == indexOf(s, sep, 1)
    IN IF i = 0 THEN <<s>>
       ELSE <<SubSeq(s, 1, i - 1)>> \o split(SubSeq(s, i + Len(sep), Len(s)), sep)

\* Array.prototype.join
RECURSIVE join(_, _)
join(parts, sep) ==
    IF Len(parts) = 0 THEN ""
    ELSE IF Len(parts) = 1 THEN parts[1]
    ELSE parts[1] \o sep \o join(Tail(parts), sep)

\* String.prototype.replace(/c/g, by) for a one-character pattern
RECURSIVE replaceAll(_, _, _)
replaceAll(s, c, by) ==
    IF s = "" THEN ""
    ELSE (IF Head(s) = c THEN by ELSE Head(s)) \o replaceAll(Tail(s), c, by)

(***************************************************************************)
(* Regular expressions of the configuration: an optional ^, an alternation *)
(* of literals, an optional $, and the i flag.  A value of a reject list   *)
(* is a string or such a pattern.                                          *)
(***************************************************************************)
RegExp(anchorStart, alts, anchorEnd, ignoreCase) ==
    [type |-> "regexp", anchorStart |-> anchorStart, alts |-> alts,
     anchorEnd |-> anchorEnd, ignoreCase |-> ignoreCase]

Undefined == [type |-> "undefined"]

Str(s) == [type |-> "string", value |-> s]

\* a call returns a value or throws an error with a message
Return(v) == [ok |-> TRUE, value |-> v]
Throw(m) == [ok |-> FALSE, message |-> m]

\* the message of the TypeError thrown by v.k and by v.k() for a v without k
\* (the wording of V8 since Node.js 16)
typeError(v, name, k) ==
    IF v = Undefined THEN "Cannot read properties of undefined (reading '" \o k \o "')"
    ELSE name \o "." \o k \o " is not a function"

\* the literal lit stands in s at position pos, letters compared as the i flag says
matchesAt(s, pos, lit, ignoreCase) ==
    /\ pos >= 1
    /\ pos + Len(lit) - 1 <= Len(s)
    /\ \A k \in 1..Len(lit) :
          IF ignoreCase
          THEN lowerChar(charAt(s, pos + k - 1)) = lowerChar(charAt(lit, k))
          ELSE charAt(s, pos + k - 1) = charAt(lit, k)

\* s.match(re) !== null: an unanchored search unless the pattern anchors itself
regexMatch(s, re) ==
    \E a \in re.alts :
        IF re.anchorStart
        THEN /\ matchesAt(s, 1, a, re.ignoreCase)
             /\ re.anchorEnd => Len(a) = Len(s)
        ELSE IF re.anchorEnd
        THEN matchesAt(s, Len(s) - Len(a) + 1, a, re.ignoreCase)
        ELSE \E pos \in 1..(Len(s) + 1) : matchesAt(s, pos, a, re.ignoreCase)

(***************************************************************************)
(* The configuration.  An absent optional string is "", an absent optional *)
(* list is << >>, an absent optional pattern is Undefined: the code only   *)
(* tests these fields for truthiness, or loops over them.                  *)
(***************************************************************************)
Rule(matchExact, matchHost, matchPattern, rejectUsers, rejectPattern, rejectIfSubjectContains, allowAll, recipients) ==
    [matchExact |-> matchExact, matchHost |-> matchHost,
     matchPattern |-> matchPattern, rejectUsers |-> rejectUsers,
     rejectPattern |-> rejectPattern,
     rejectIfSubjectContains |-> rejectIfSubjectContains,
     allowAll |-> allowAll, recipients |-> recipients]

You == "you@yourteam.awsapps.com"
Buddy == "buddy@yourteam.awsapps.com"

\* the four rules of the example configuration
HostRule ==
    Rule("", "yourdomain.com", Undefined, <<"bad", "null">>, Undefined, << >>, FALSE, <<You>>)
ExactRule ==
    Rule("buddy@yourotherdomain.org", "", Undefined, << >>, Undefined, << >>, FALSE, <<Buddy>>)
PatternRule ==
    Rule("", "", RegExp(TRUE, {"biz@yourotherdomain.org", "legal@yourotherdomain.org"}, TRUE, TRUE),
         << >>, Undefined, << >>, FALSE, <<You, Buddy>>)
AllowAllRule ==
    Rule("", "", RegExp(TRUE, {"abuse@", "admin@", "webmaster@", "postmaster@", "hostmaster@"},
                        FALSE, TRUE),
         << >>, Undefined, << >>, TRUE, <<You>>)

\* further rules: allowAll together with reject conditions of the rule itself,
\* a rule with reject conditions, with two criteria, and with none
BypassRule ==
    Rule("", "", RegExp(TRUE, {"abuse@", "admin@", "postmaster@"}, FALSE, TRUE),
         <<"abuse">>, RegExp(TRUE, {"abuse@"}, FALSE, TRUE), <<Str("MONEY")>>, TRUE, <<Buddy, You>>)
RejectingRule ==
    Rule("", "yourdomain.com", Undefined, << >>, RegExp(TRUE, {"spamaddress@", "abuse@"}, FALSE, TRUE),
         <<Str("SALE"), RegExp(FALSE, {"free money"}, FALSE, TRUE)>>, FALSE, <<Buddy>>)
TwoCriteriaRule ==
    Rule("", "yourdomain.com", RegExp(TRUE, {"abuse@", "bad@"}, FALSE, TRUE), << >>,
         Undefined, << >>, FALSE, <<Buddy>>)
NoCriteriaRule ==
    Rule("", "", Undefined, << >>, Undefined, << >>, FALSE, <<"nobody@yourteam.awsapps.com">>)

\* config.rules as the example configuration has it
ExampleRules == <<HostRule, ExactRule, PatternRule, AllowAllRule>>

\* the rules the lists given to processRules are made of
RulePool ==
    {HostRule, ExactRule, BypassRule, RejectingRule, TwoCriteriaRule, NoCriteriaRule}

\* globalRules.rejectIfSubjectContains
GlobalSubjectList == <<Str("MAKE.MONEY.FAST")>>

\* globalRules.rejectIfBodyLineContains
GlobalBodyList == <<Str("viagra"), RegExp(TRUE, {"click here"}, FALSE, TRUE)>>

\* the alias rules of the first revision: a pattern and an optional rejectPattern
Alias(pattern, rejectPattern, recipients) ==
    [pattern |-> pattern, rejectPattern |-> rejectPattern, recipients |-> recipients]

\* the three aliases of the example configuration
YourDomainAlias ==
    Alias(RegExp(FALSE, {"@yourdomain.com"}, TRUE, TRUE),
          RegExp(TRUE, {"spamaddress@", "otherspam@"}, FALSE, TRUE), <<You>>)
BuddyAlias ==
    Alias(RegExp(TRUE, {"buddy@yourotherdomain.org"}, TRUE, TRUE), Undefined, <<Buddy>>)
WholeTeamAlias ==
    Alias(RegExp(TRUE, {"wholeteam@yourotherdomain.org"}, TRUE, TRUE), Undefined, <<You, Buddy>>)

\* a further alias: any address, no rejectPattern
CatchAllAlias == Alias(RegExp(FALSE, {"@"}, FALSE, FALSE), Undefined, <<Buddy, You>>)

AliasPool == {YourDomainAlias, BuddyAlias, WholeTeamAlias, CatchAllAlias}

Config(rules, aliases, subjectList, bodyList) ==
    [rules |-> rules, aliases |-> aliases,
     globalRules |-> [rejectIfSubjectContains |-> subjectList,
                      rejectIfBodyLineContains |-> bodyList],
     postmaster |-> You]

SeqsUpTo(S, n) == UNION {[1..k -> S] : k \in 0..n}

\* lists without a repeated entry: a second copy of a rule is never reached
ListsUpTo(S, n) == {l \in SeqsUpTo(S, n) : \A i, j \in DOMAIN l : l[i] = l[j] => i = j}

(***************************************************************************)
(* processRules                                                            *)
(***************************************************************************)
\* variant: one satisfied criterion is enough for the rule to match
matchesRuleAnyCriterion(rule, origRecipient) ==
    LET parts == split(origRecipient, "@")
    IN \/ rule.matchExact # "" /\ origRecipient = rule.matchExact
       \/ rule.matchHost # "" /\ Len(parts) >= 2 /\ parts[2] = rule.matchHost
       \/ rule.matchPattern.type # "undefined"
            /\ regexMatch(origRecipient, rule.matchPattern)

\* variant: the host is what follows the last "@"
matchesRuleLastHost(rule, origRecipient) ==
    LET parts == split(origRecipient, "@")
    IN /\ rule.matchExact # "" \/ rule.matchHost # "" \/ rule.matchPattern.type # "undefined"
       /\ ~(rule.matchExact # "" /\ origRecipient # rule.matchExact)
       /\ ~(rule.matchHost # "" /\ (Len(parts) < 2 \/ parts[Len(parts)] # rule.matchHost))
       /\ ~(rule.matchPattern.type # "undefined"
            /\ ~regexMatch(origRecipient, rule.matchPattern))

\* the rule has a match criterion and the recipient satisfies all it has
matchesRule(rule, origRecipient) ==
    LET parts == split(origRecipient, "@")
    IN /\ rule.matchExact # "" \/ rule.matchHost # "" \/ rule.matchPattern.type # "undefined"
       /\ ~(rule.matchExact # "" /\ origRecipient # rule.matchExact)
       /\ ~(rule.matchHost # "" /\ (Len(parts) < 2 \/ parts[2] # rule.matchHost))
       /\ ~(rule.matchPattern.type # "undefined"
            /\ ~regexMatch(origRecipient, rule.matchPattern))

\* one entry of a reject list against a string: text.includes(rejectItem)
\* for a string entry, text.match(rejectItem) for a pattern
rejectItemHits(rejectItem, text) ==
    IF rejectItem.type = "string"
    THEN includes(text, rejectItem.value)
    ELSE regexMatch(text, rejectItem)

rejectListHits(rejectList, text) ==
    \E ri \in 1..Len(rejectList) : rejectItemHits(rejectList[ri], text)

\* one entry of a rejectIfSubjectContains list against the subject the handler
\* passes, which is the value the event holds: a string has includes and
\* match; a Buffer and an array have includes only, and an array includes
\* its own elements; any other object has neither.  Calling a method the
\* value does not have throws a TypeError.
subjectItemHits(rejectItem, subj) ==
    IF subj.type = "string" THEN Return(rejectItemHits(rejectItem, subj.value))
    ELSE IF rejectItem.type # "string" THEN Throw(typeError(subj, "subject", "match"))
    ELSE CASE subj.type = "buffer" -> Return(includes(subj.value, rejectItem.value))
           [] subj.type = "array" -> Return(rejectItem \in Range(subj.items))
           [] OTHER -> Throw(typeError(subj, "subject", "includes"))

\* the loop over a subject reject list ends at the first entry that hits or
\* throws; against a string no entry throws
subjectListHits(rejectList, subj) ==
    LET stops == {ri \in 1..Len(rejectList) :
                     LET r == subjectItemHits(rejectList[ri], subj)
                     IN ~r.ok \/ r.value}
    IN IF subj.type = "string" THEN Return(rejectListHits(rejectList, subj.value))
       ELSE IF stops = {} THEN Return(FALSE)
       ELSE subjectItemHits(rejectList[CHOOSE ri \in stops : \A j \in stops : ri <= j],
                            subj)

\* variant: the global subject list is consulted only inside the rule's own subject check
rejectedByRuleGlobalNested(rule, origRecipient, subj, cfg) ==
    LET origUser == split(origRecipient, "@")[1]
        thenGlobal(own) ==
            IF ~own.ok \/ own.value THEN own
            ELSE IF Len(rule.rejectIfSubjectContains) > 0
            THEN subjectListHits(cfg.globalRules.rejectIfSubjectContains, subj)
            ELSE Return(FALSE)
    IN IF rule.allowAll THEN Return(FALSE)
       ELSE IF \/ origUser \in Range(rule.rejectUsers)
               \/ /\ rule.rejectPattern.type # "undefined"
                  /\ regexMatch(origRecipient, rule.rejectPattern)
       THEN Return(TRUE)
       ELSE thenGlobal(subjectListHits(rule.rejectIfSubjectContains, subj))

\* the reject conditions of a matched rule, each run while `rejected` is
\* false: the value of `rejected` after them, or the TypeError thrown by a
\* subject check
rejectedByRule(rule, origRecipient, subj, cfg) ==
    LET origUser == split(origRecipient, "@")[1]
        thenGlobal(own) ==
            IF ~own.ok \/ own.value THEN own
            ELSE subjectListHits(cfg.globalRules.rejectIfSubjectContains, subj)
    IN IF rule.allowAll THEN Return(FALSE)
       ELSE IF \/ origUser \in Range(rule.rejectUsers)
               \/ /\ rule.rejectPattern.type # "undefined"
                  /\ regexMatch(origRecipient, rule.rejectPattern)
       THEN Return(TRUE)
       ELSE thenGlobal(subjectListHits(rule.rejectIfSubjectContains, subj))

\* the rule at which the scan `for (i = 0; !matched && i < rules.length; ...)` stops
RECURSIVE scanRules(_, _, _)
scanRules(rules, i, origRecipient) ==
    IF i > Len(rules) THEN 0
    ELSE IF matchesRule(rules[i], origRecipient) THEN i
    ELSE scanRules(rules, i + 1, origRecipient)

\* variant: every alias recipient is pushed
addAllNoDedupe(acc, aliasRecipients) == acc \o aliasRecipients

\* variant: a new alias recipient is put in front of the list
RECURSIVE addAllPrepend(_, _)
addAllPrepend(acc, aliasRecipients) ==
    IF Len(aliasRecipients) = 0 THEN acc
    ELSE addAllPrepend(IF Head(aliasRecipients) \in Range(acc) THEN acc
                       ELSE <<Head(aliasRecipients)>> \o acc,
                       Tail(aliasRecipients))

\* aliasRecipients.forEach: push what newRecipients does not include
RECURSIVE addAll(_, _)
addAll(acc, aliasRecipients) ==
    IF Len(aliasRecipients) = 0 THEN acc
    ELSE addAll(IF Head(aliasRecipients) \in Range(acc) THEN acc
                ELSE Append(acc, Head(aliasRecipients)),
                Tail(aliasRecipients))

\* variant: the latest accepted recipient replaces the recorded one
orElseLatest(a, b) == b

\* variant: a ?? b, which keeps the initial ''
orElseNullish(a, b) == a

\* firstOrigRecipient = firstOrigRecipient || origRecipient
orElse(a, b) == IF a # "" THEN a ELSE b

\* variant: a rule that rejects is skipped and the scan goes on to later rules
RECURSIVE scanAccepting(_, _, _, _, _)
scanAccepting(rules, i, origRecipient, subj, cfg) ==
    IF i > Len(rules) THEN 0
    ELSE IF /\ matchesRule(rules[i], origRecipient)
            /\ LET r == rejectedByRule(rules[i], origRecipient, subj, cfg)
               IN ~r.ok \/ ~r.value
    THEN i
    ELSE scanAccepting(rules, i + 1, origRecipient, subj, cfg)

rulesCallbackFallthrough(st, origRecipient, subj, cfg) ==
    LET i == scanAccepting(cfg.rules, 1, origRecipient, subj, cfg)
        first == scanRules(cfg.rules, 1, origRecipient)
        matchedRule(r) ==
            IF ~r.ok THEN r
            ELSE Return([matched |-> TRUE, ruleIndex |-> i, rejected |-> FALSE,
                         firstOrigRecipient |-> orElse(st.firstOrigRecipient, origRecipient),
                         newRecipients |-> addAll(st.newRecipients, cfg.rules[i].recipients)])
    IN IF i = 0
       THEN Return([st EXCEPT !.matched = first # 0, !.ruleIndex = first,
                              !.rejected = first # 0])
       ELSE matchedRule(rejectedByRule(cfg.rules[i], origRecipient, subj, cfg))

\* one callback of origRecipients.forEach; st holds the locals of processRules.
\* The callback returns with the locals updated, or throws the TypeError of a
\* subject check.
rulesCallback(st, origRecipient, subj, cfg) ==
    LET i == scanRules(cfg.rules, 1, origRecipient)
        matchedRule(r) ==
            IF ~r.ok THEN r
            ELSE IF r.value
            THEN Return([st EXCEPT !.matched = TRUE, !.ruleIndex = i, !.rejected = TRUE])
            ELSE Return([matched |-> TRUE, ruleIndex |-> i, rejected |-> FALSE,
                         firstOrigRecipient |-> orElse(st.firstOrigRecipient, origRecipient),
                         newRecipients |-> addAll(st.newRecipients, cfg.rules[i].recipients)])
    IN IF i = 0
       THEN Return([st EXCEPT !.matched = FALSE, !.ruleIndex = 0, !.rejected = FALSE])
       ELSE matchedRule(rejectedByRule(cfg.rules[i], origRecipient, subj, cfg))

rulesLocals ==
    [matched |-> FALSE, ruleIndex |-> 0, rejected |-> FALSE,
     firstOrigRecipient |-> "", newRecipients |-> << >>]

\* origRecipients.forEach: an error thrown by a callback ends the loop
RECURSIVE rulesLoop(_, _, _, _)
rulesLoop(st, recipients, subj, cfg) ==
    IF Len(recipients) = 0 THEN Return(st)
    ELSE LET next(r) == IF r.ok THEN rulesLoop(r.value, Tail(recipients), subj, cfg) ELSE r
         IN next(rulesCallback(st, Head(recipients), subj, cfg))

\* processRules returns [newRecipients, firstOrigRecipient] or throws
processRules(recipients, subj, cfg) ==
    LET returned(r) ==
            IF r.ok THEN Return(<<r.value.newRecipients, r.value.firstOrigRecipient>>)
            ELSE r
    IN returned(rulesLoop(rulesLocals, recipients, subj, cfg))

(***************************************************************************)
(* processAliases, the first revision of the rule engine                   *)
(***************************************************************************)
RECURSIVE scanAliases(_, _, _)
scanAliases(aliases, i, origRecipient) ==
    IF i > Len(aliases) THEN 0
    ELSE IF regexMatch(origRecipient, aliases[i].pattern) THEN i
    ELSE scanAliases(aliases, i + 1, origRecipient)

\* a ?? b: the left operand unless it is null or undefined; a string is neither
nullish(a, b) == a

aliasesCallback(st, origRecipient, cfg) ==
    LET i == scanAliases(cfg.aliases, 1, origRecipient)
    IN IF i = 0
       THEN [st EXCEPT !.matched = FALSE, !.ruleIndex = 0, !.rejected = FALSE]
       ELSE IF /\ cfg.aliases[i].rejectPattern.type # "undefined"
               /\ regexMatch(origRecipient, cfg.aliases[i].rejectPattern)
       THEN [st EXCEPT !.matched = TRUE, !.ruleIndex = i, !.rejected = TRUE]
       ELSE [matched |-> TRUE, ruleIndex |-> i, rejected |-> FALSE,
             firstOrigRecipient |-> nullish(st.firstOrigRecipient, origRecipient),
             newRecipients |-> addAll(st.newRecipients, cfg.aliases[i].recipients)]

(***************************************************************************)
(* processMessage                                                          *)
(***************************************************************************)
CRLF == "\r\n"

\* the ASCII characters \s matches and trim() strips: space, tab, line feed,
\* carriage return, form feed and vertical tab (0x0B, written as the
\* character itself)
WhiteSpace == {" ", "\t", "\n", "\r", "\f", ""}

\* the ASCII characters . does not match
LineTerminators == {"\n", "\r"}

\* line.match(/^\s/)
startsWithSpace(line) == line # "" /\ Head(line) \in WhiteSpace

\* !value.trim(): nothing but white space
isBlank(value) == \A i \in 1..Len(value) : charAt(value, i) \in WhiteSpace

\* length of the longest prefix of s made of characters outside `stop`
RECURSIVE spanLength(_, _)
spanLength(s, stop) ==
    IF s = "" \/ Head(s) \in stop THEN 0 ELSE 1 + spanLength(Tail(s), stop)

\* headerLine.match(/^([^\s:]+):\s?(.*)$/): the groups, or no match
parseHeaderLine(headerLine) ==
    LET n == spanLength(headerLine, WhiteSpace \cup {":"})
        rest == SubSeq(headerLine, n + 2, Len(headerLine))
        value == IF startsWithSpace(rest) THEN Tail(rest) ELSE rest
    IN IF /\ n > 0
          /\ n < Len(headerLine)
          /\ charAt(headerLine, n + 1) = ":"
          /\ \A i \in 1..Len(value) : charAt(value, i) \notin LineTerminators
       THEN [matched |-> TRUE, key |-> SubSeq(headerLine, 1, n), value |-> value]
       ELSE [matched |-> FALSE, key |-> "", value |-> ""]

\* variant: the pattern lacks the i flag
isExcludedHeaderCaseSensitive(headerKey) ==
    headerKey \in {"Return-Path", "Sender", "DKIM-Signature"}

\* headerKey.match(excludeHeaderPattern)
isExcludedHeader(headerKey) ==
    toLowerCase(headerKey) \in {"return-path", "sender", "dkim-signature"}

\* headerKey.match(excludeIfEmptyHeaderPattern)
isExcludedIfEmptyHeader(headerKey) == toLowerCase(headerKey) = "reply-to"

\* headerKey.match(allowDuplicateHeaderPatten)
isDuplicateAllowed(headerKey) == toLowerCase(headerKey) = "received"

\* The headers object, as its own properties in insertion order.
\* Object.prototype.hasOwnProperty.call(headers, key)
hasOwnProperty(hdrs, key) == \E i \in 1..Len(hdrs) : hdrs[i].key = key

\* headers[key], "" standing for undefined
getHeader(hdrs, key) ==
    IF hasOwnProperty(hdrs, key)
    THEN hdrs[CHOOSE i \in 1..Len(hdrs) : hdrs[i].key = key].value
    ELSE ""

\* headers[key] = value; assigning a string to __proto__ creates no property
setHeader(hdrs, key, value) ==
    IF key = "__proto__" THEN hdrs
    ELSE IF hasOwnProperty(hdrs, key)
    THEN [i \in 1..Len(hdrs) |->
            IF hdrs[i].key = key THEN [key |-> key, value |-> value] ELSE hdrs[i]]
    ELSE Append(hdrs, [key |-> key, value |-> value])

\* String.prototype.replace with a string pattern: the first occurrence only
replaceFirst(s, c, by) ==
    LET i == indexOf(s, c, 1)
    IN IF i = 0 THEN s ELSE SubSeq(s, 1, i - 1) \o by \o SubSeq(s, i + 1, Len(s))

\* variant: the patterns lack the g flag
sanitizeFromFirstOnly(from) ==
    replaceFirst(replaceFirst(replaceFirst(from, "\"", ""), "<", "("), ">", ")")

\* origFrom.replace(/"/g, '').replace(/</g, '(').replace(/>/g, ')')
sanitizeFrom(from) == replaceAll(replaceAll(replaceAll(from, "\"", ""), "<", "("), ">", ")")

\* headerValue = `"${from}" <${firstOrigRecipient}>`
rewriteFrom(from, recipient) == "\"" \o sanitizeFrom(from) \o "\" <" \o recipient \o ">"

Running == [kind |-> "none", value |-> ""]
Returned(message) == [kind |-> "string", value |-> message]
Vetoed == [kind |-> "undefined", value |-> ""]
Thrown(message) == [kind |-> "throw", value |-> message]

\* the locals of processMessage before the loop
messageLocals ==
    [headers |-> << >>, newMessageLines |-> << >>, currentHeader |-> << >>,
     inHeaders |-> TRUE, origFrom |-> "", result |-> Running]

\* variant: the condensed header line is emitted instead of the buffered lines
flushHeaderCondensed(st, recipient) ==
    LET headerLine == join(st.currentHeader, " ")
        match == parseHeaderLine(headerLine)
        headerKey == match.key
        lowerHeaderKey == toLowerCase(headerKey)
    IN IF Len(st.currentHeader) = 0 THEN st
       ELSE IF ~match.matched
       THEN [st EXCEPT !.result = Thrown("Failed to parse message header:\n" \o headerLine)]
       ELSE IF \/ isExcludedHeader(headerKey)
               \/ isExcludedIfEmptyHeader(headerKey) /\ isBlank(match.value)
               \/ hasOwnProperty(st.headers, lowerHeaderKey) /\ ~isDuplicateAllowed(headerKey)
       THEN [st EXCEPT !.currentHeader = << >>]
       ELSE IF lowerHeaderKey = "from"
       THEN LET headerValue == rewriteFrom(match.value, recipient)
            IN [st EXCEPT !.origFrom = match.value,
                          !.headers = setHeader(st.headers, lowerHeaderKey, headerValue),
                          !.newMessageLines =
                              Append(st.newMessageLines, headerKey \o ": " \o headerValue),
                          !.currentHeader = << >>]
       ELSE [st EXCEPT !.headers = setHeader(st.headers, lowerHeaderKey, match.value),
                       !.newMessageLines = Append(st.newMessageLines, headerLine),
                       !.currentHeader = << >>]

\* process the buffered header: omit it, or record and emit it
flushHeader(st, recipient) ==
    LET headerLine == join(st.currentHeader, " ")
        match == parseHeaderLine(headerLine)
        headerKey == match.key
        lowerHeaderKey == toLowerCase(headerKey)
    IN IF Len(st.currentHeader) = 0 THEN st
       ELSE IF ~match.matched
       THEN [st EXCEPT !.result = Thrown("Failed to parse message header:\n" \o headerLine)]
       ELSE IF \/ isExcludedHeader(headerKey)
               \/ isExcludedIfEmptyHeader(headerKey) /\ isBlank(match.value)
               \/ hasOwnProperty(st.headers, lowerHeaderKey) /\ ~isDuplicateAllowed(headerKey)
       THEN [st EXCEPT !.currentHeader = << >>]
       ELSE IF lowerHeaderKey = "from"
       THEN LET headerValue == rewriteFrom(match.value, recipient)
            IN [st EXCEPT !.origFrom = match.value,
                          !.headers = setHeader(st.headers, lowerHeaderKey, headerValue),
                          !.newMessageLines =
                              Append(st.newMessageLines, headerKey \o ": " \o headerValue),
                          !.currentHeader = << >>]
       ELSE [st EXCEPT !.headers = setHeader(st.headers, lowerHeaderKey, match.value),
                       !.newMessageLines = st.newMessageLines \o st.currentHeader,
                       !.currentHeader = << >>]

\* variant: an empty header set is let through at the end of the headers
endOfHeadersUnchecked(st) ==
    IF getHeader(st.headers, "reply-to") # ""
    THEN [st EXCEPT !.inHeaders = FALSE,
                    !.newMessageLines = Append(st.newMessageLines, "")]
    ELSE IF st.origFrom # ""
    THEN [st EXCEPT !.inHeaders = FALSE,
                    !.newMessageLines = st.newMessageLines \o <<"Reply-To: " \o st.origFrom, "">>]
    ELSE [st EXCEPT !.inHeaders = FALSE,
                    !.newMessageLines = Append(st.newMessageLines, "")]

\* variant: Reply-To is added whenever a From was seen
endOfHeadersAlwaysInject(st) ==
    IF Len(st.headers) = 0
    THEN [st EXCEPT !.inHeaders = FALSE,
                    !.result = Thrown("Message had no headers (started with blank line)")]
    ELSE IF st.origFrom # ""
    THEN [st EXCEPT !.inHeaders = FALSE,
                    !.newMessageLines = st.newMessageLines \o <<"Reply-To: " \o st.origFrom, "">>]
    ELSE [st EXCEPT !.inHeaders = FALSE,
                    !.newMessageLines = Append(st.newMessageLines, "")]

\* variant: the added Reply-To carries the sanitized From value
endOfHeadersSanitized(st) ==
    IF Len(st.headers) = 0
    THEN [st EXCEPT !.inHeaders = FALSE,
                    !.result = Thrown("Message had no headers (started with blank line)")]
    ELSE IF getHeader(st.headers, "reply-to") # ""
    THEN [st EXCEPT !.inHeaders = FALSE,
                    !.newMessageLines = Append(st.newMessageLines, "")]
    ELSE IF st.origFrom # ""
    THEN [st EXCEPT !.inHeaders = FALSE,
                    !.newMessageLines =
                        st.newMessageLines \o <<"Reply-To: " \o sanitizeFrom(st.origFrom), "">>]
    ELSE [st EXCEPT !.inHeaders = FALSE,
                    !.newMessageLines = Append(st.newMessageLines, "")]

\* the blank line that ends the headers
endOfHeaders(st) ==
    IF Len(st.headers) = 0
    THEN [st EXCEPT !.inHeaders = FALSE,
                    !.result = Thrown("Message had no headers (started with blank line)")]
    ELSE IF getHeader(st.headers, "reply-to") # ""
    THEN [st EXCEPT !.inHeaders = FALSE,
                    !.newMessageLines = Append(st.newMessageLines, "")]
    ELSE IF st.origFrom # ""
    THEN [st EXCEPT !.inHeaders = FALSE,
                    !.newMessageLines = st.newMessageLines \o <<"Reply-To: " \o st.origFrom, "">>]
    ELSE [st EXCEPT !.inHeaders = FALSE,
                    !.newMessageLines = Append(st.newMessageLines, "")]

\* a line read in header mode; currentHeader is an array and never falsy, so
\* the throw of 'Message started with space' is not reachable
headerModeLine(st, line, recipient) ==
    IF startsWithSpace(line)
    THEN [st EXCEPT !.currentHeader = Append(st.currentHeader, line)]
    ELSE LET flushed == flushHeader(st, recipient)
         IN IF flushed.result.kind # "none" THEN flushed
            ELSE IF line = "" THEN endOfHeaders(flushed)
            ELSE [flushed EXCEPT !.currentHeader = <<line>>]

\* variant: empty body lines are not copied
bodyModeLineSkipBlank(st, line, cfg) ==
    IF rejectListHits(cfg.globalRules.rejectIfBodyLineContains, line)
    THEN [st EXCEPT !.result = Vetoed]
    ELSE IF line = "" THEN st
    ELSE [st EXCEPT !.newMessageLines = Append(st.newMessageLines, line)]

\* a line read in body mode
bodyModeLine(st, line, cfg) ==
    IF rejectListHits(cfg.globalRules.rejectIfBodyLineContains, line)
    THEN [st EXCEPT !.result = Vetoed]
    ELSE [st EXCEPT !.newMessageLines = Append(st.newMessageLines, line)]

\* one iteration of the loop over lines
messageLine(st, line, recipient, cfg) ==
    IF st.inHeaders THEN headerModeLine(st, line, recipient)
    ELSE bodyModeLine(st, line, cfg)

RECURSIVE messageLoop(_, _, _, _)
messageLoop(st, rest, recipient, cfg) ==
    IF st.result.kind # "none" THEN st
    ELSE IF Len(rest) = 0
    THEN [st EXCEPT !.result = Returned(join(st.newMessageLines, CRLF))]
    ELSE messageLoop(messageLine(st, Head(rest), recipient, cfg), Tail(rest), recipient, cfg)

processMessage(message, recipient, cfg) ==
    messageLoop(messageLocals, split(message, CRLF), recipient, cfg).result

(***************************************************************************)
(* The rule engine run on its own: one step for each forEach callback.     *)
(***************************************************************************)
RecipientPool ==
    {"bad@yourdomain.com", "ok@yourdomain.com", "abuse@yourdomain.com",
     "buddy@yourotherdomain.org", "ok@yourdomain.com@elsewhere.net"}

NoMessage ==
    /\ origMessage = ""
    /\ lines = << >>
    /\ lineIndex = 0
    /\ headers = << >>
    /\ newMessageLines = << >>
    /\ currentHeader = << >>
    /\ inHeaders = TRUE
    /\ origFrom = ""
    /\ result = Running

NoHandler ==
    /\ event = Undefined
    /\ suppressSend = FALSE
    /\ s3Url = ""
    /\ error = ""
    /\ calls = << >>
    /\ disposition = "none"

RulesLocalsInit ==
    /\ recipientIndex = 0
    /\ matched = FALSE
    /\ ruleIndex = 0
    /\ rejected = FALSE
    /\ newRecipients = << >>
    /\ firstOrigRecipient = ""

\* parseRecord refuses an empty list; a recipient listed twice meets the same
\* rule again and adds nothing the first copy has not added; a subject comes
\* with the global subject reject list it is checked against
InitRules ==
    /\ pc = "processRules"
    /\ \E rules \in ListsUpTo(RulePool, MaxRules),
          c \in {<<"hello", GlobalSubjectList>>,
                 <<"MAKE.MONEY.FAST today", GlobalSubjectList>>,
                 <<"Big SALE: Free Money", << >> >>} :
          /\ config = Config(rules, << >>, c[2], << >>)
          /\ subject = Str(c[1])
    /\ origRecipients \in ListsUpTo(RecipientPool, MaxRecipients) \ {<< >>}
    /\ RulesLocalsInit
    /\ NoMessage
    /\ NoHandler

SetRulesLocals(st) ==
    /\ matched' = st.matched
    /\ ruleIndex' = st.ruleIndex
    /\ rejected' = st.rejected
    /\ newRecipients' = st.newRecipients
    /\ firstOrigRecipient' = st.firstOrigRecipient

RulesLocals ==
    [matched |-> matched, ruleIndex |-> ruleIndex, rejected |-> rejected,
     firstOrigRecipient |-> firstOrigRecipient, newRecipients |-> newRecipients]

\* processRules: the callback for the next original recipient, which returns
\* or throws out of processRules
RulesStep ==
    /\ pc = "processRules"
    /\ recipientIndex < Len(origRecipients)
    /\ recipientIndex' = recipientIndex + 1
    /\ LET r == rulesCallback(RulesLocals, origRecipients[recipientIndex + 1],
                               subject, config)
       IN IF r.ok
          THEN SetRulesLocals(r.value) /\ UNCHANGED <<pc, error>>
          ELSE /\ error' = r.message
               /\ pc' = "processRulesThrew"
               /\ UNCHANGED <<matched, ruleIndex, rejected, newRecipients,
                              firstOrigRecipient>>
    /\ UNCHANGED <<config, origRecipients, subject, messageVars, event, suppressSend,
                   s3Url, calls, disposition>>

\* processRules: return [newRecipients, firstOrigRecipient]
RulesReturn ==
    /\ pc = "processRules"
    /\ recipientIndex = Len(origRecipients)
    /\ pc' = "processRulesDone"
    /\ UNCHANGED <<config, rulesVars, messageVars, handlerVars>>

NextRules == RulesStep \/ RulesReturn

SpecRules == InitRules /\ [][NextRules]_vars

(***************************************************************************)
(* processMessage run on its own: one step for each line.                  *)
(***************************************************************************)
HeaderLinePool ==
    {"From: \"A > B\" <x@y>", "FROM:", "Subject: hi", "Received: by mx",
     "Reply-To: r@z", "Reply-To: ", "DKIM-Signature: v=1", "sender: s@y",
     " folded", "__proto__: x"}

\* header lines, then what follows them: nothing, or the blank line and the body
MessagePool ==
    {join(h \o b, CRLF) :
        h \in SeqsUpTo(HeaderLinePool, MaxHeaderLines),
        b \in {<< >>, <<"", "">>, <<"", "hello", "", "bye", "">>, <<"", "cheap viagra">>,
               <<"", "hello", "Click here">>}}

InitMessage ==
    /\ pc = "processMessage"
    /\ config = Config(<< >>, << >>, << >>, GlobalBodyList)
    /\ origMessage \in MessagePool
    /\ lines = split(origMessage, CRLF)
    /\ lineIndex = 0
    /\ headers = messageLocals.headers
    /\ newMessageLines = messageLocals.newMessageLines
    /\ currentHeader = messageLocals.currentHeader
    /\ inHeaders = messageLocals.inHeaders
    /\ origFrom = messageLocals.origFrom
    /\ result = messageLocals.result
    /\ origRecipients = << >>
    /\ subject = Str("")
    /\ recipientIndex = 0
    /\ matched = FALSE
    /\ ruleIndex = 0
    /\ rejected = FALSE
    /\ newRecipients = <<You>>
    /\ firstOrigRecipient = "ok@yourdomain.com"
    /\ NoHandler

MessageLocals ==
    [headers |-> headers, newMessageLines |-> newMessageLines,
     currentHeader |-> currentHeader, inHeaders |-> inHeaders,
     origFrom |-> origFrom, result |-> result]

SetMessageLocals(st) ==
    /\ headers' = st.headers
    /\ newMessageLines' = st.newMessageLines
    /\ currentHeader' = st.currentHeader
    /\ inHeaders' = st.inHeaders
    /\ origFrom' = st.origFrom
    /\ result' = st.result

\* processMessage: the loop body for the next line; a throw or a veto ends the call
MessageStep ==
    /\ pc = "processMessage"
    /\ lineIndex < Len(lines)
    /\ lineIndex' = lineIndex + 1
    /\ LET st == messageLine(MessageLocals, lines[lineIndex + 1], firstOrigRecipient, config)
       IN /\ SetMessageLocals(st)
          /\ pc' = IF st.result.kind = "none" THEN pc ELSE "processMessageDone"
    /\ UNCHANGED <<config, origMessage, lines, origRecipients, subject, recipientIndex,
                   matched, ruleIndex, rejected, newRecipients, firstOrigRecipient,
                   handlerVars>>

\* variant: the header still in the buffer is processed before the return
MessageReturnFlushing ==
    /\ pc = "processMessage"
    /\ lineIndex = Len(lines)
    /\ LET st == flushHeader(MessageLocals, firstOrigRecipient)
       IN SetMessageLocals(
             IF st.result.kind # "none" THEN st
             ELSE [st EXCEPT !.result = Returned(join(st.newMessageLines, CRLF))])
    /\ pc' = "processMessageDone"
    /\ UNCHANGED <<config, origMessage, lines, lineIndex, rulesVars, handlerVars>>

\* processMessage: return newMessageLines.join('\r\n')
MessageReturn ==
    /\ pc = "processMessage"
    /\ lineIndex = Len(lines)
    /\ result' = Returned(join(newMessageLines, CRLF))
    /\ pc' = "processMessageDone"
    /\ UNCHANGED <<config, origMessage, lines, lineIndex, headers, newMessageLines,
                   currentHeader, inHeaders, origFrom, rulesVars, handlerVars>>

NextMessage == MessageStep \/ MessageReturn

SpecMessage == InitMessage /\ [][NextMessage]_vars

(***************************************************************************)
(* The Lambda handler.  A JavaScript value is a record with a type field:   *)
(* undefined, a string, an object with its properties as fields, an array  *)
(* of values, or a Buffer.  A call either returns a value or throws an     *)
(* error message.                                                          *)
(***************************************************************************)
\* process.env.S3BucketEmail, process.env.S3PrefixEmail
emailBucket == "bucket"
emailPrefix == "inbound/"

Arr(items) == [type |-> "array", items |-> items]
Buffer(s) == [type |-> "buffer", value |-> s]

\* !v
falsy(v) == v = Undefined \/ v = Str("")

\* typeof v === 'object'
isObject(v) == v.type \in {"object", "array", "buffer"}

\* v[k]: a property the value does not have is undefined
prop(v, k) == IF k \in DOMAIN v THEN v[k] ELSE Undefined

\* `${v}`: a string is itself, a Buffer its content, an array its elements
\* joined by commas (an undefined element gives nothing), any other object
\* '[object Object]'
RECURSIVE template(_)
template(v) ==
    CASE v.type = "string" -> v.value
      [] v.type = "undefined" -> "undefined"
      [] v.type = "buffer" -> v.value
      [] v.type = "array" ->
            join([i \in 1..Len(v.items) |->
                     IF v.items[i] = Undefined THEN "" ELSE template(v.items[i])], ",")
      [] OTHER -> "[object Object]"

Mail(messageId, subj) ==
    [type |-> "object", messageId |-> Str(messageId),
     commonHeaders |-> [type |-> "object", subject |-> subj]]
Receipt(recipients) == [type |-> "object", recipients |-> recipients]
Ses(mail, receipt) == [type |-> "object", mail |-> mail, receipt |-> receipt]
Record(eventSource, eventVersion, ses) ==
    [type |-> "object", eventSource |-> eventSource, eventVersion |-> eventVersion, ses |-> ses]
Event(records) == [type |-> "object", Records |-> records]

\* variant: the event version is not checked
validateRecordAnyVersion(record) ==
    IF falsy(record) THEN Throw("Missing record")
    ELSE IF ~isObject(record) THEN Throw("Non-object record")
    ELSE IF prop(record, "eventSource") # Str("aws:ses")
    THEN Throw("Record has eventSource '" \o template(prop(record, "eventSource"))
               \o "'; expected 'aws:ses'")
    ELSE LET ses == prop(record, "ses")
             mail == prop(ses, "mail")
             receipt == prop(ses, "receipt")
         IN IF falsy(ses) THEN Throw("Record is missing ses field")
            ELSE IF ~isObject(ses) THEN Throw("Record has non-object ses field")
            ELSE IF falsy(mail) THEN Throw("Record ses data is missing mail field")
            ELSE IF ~isObject(mail) THEN Throw("Record ses data has non-object mail field")
            ELSE IF falsy(receipt) THEN Throw("Record ses data is missing receipt field")
            ELSE IF ~isObject(receipt)
            THEN Throw("Record ses data has non-object receipt field")
            ELSE Return(record)

\* validateSesEvent, from the record on
validateRecord(record) ==
    IF falsy(record) THEN Throw("Missing record")
    ELSE IF ~isObject(record) THEN Throw("Non-object record")
    ELSE IF prop(record, "eventSource") # Str("aws:ses")
    THEN Throw("Record has eventSource '" \o template(prop(record, "eventSource"))
               \o "'; expected 'aws:ses'")
    ELSE IF prop(record, "eventVersion") # Str("1.0")
    THEN Throw("Record has eventVersion '" \o template(prop(record, "eventVersion"))
               \o "'; expected '1.0'")
    ELSE LET ses == prop(record, "ses")
             mail == prop(ses, "mail")
             receipt == prop(ses, "receipt")
         IN IF falsy(ses) THEN Throw("Record is missing ses field")
            ELSE IF ~isObject(ses) THEN Throw("Record has non-object ses field")
            ELSE IF falsy(mail) THEN Throw("Record ses data is missing mail field")
            ELSE IF ~isObject(mail) THEN Throw("Record ses data has non-object mail field")
            ELSE IF falsy(receipt) THEN Throw("Record ses data is missing receipt field")
            ELSE IF ~isObject(receipt)
            THEN Throw("Record ses data has non-object receipt field")
            ELSE Return(record)

validateSesEvent(ev) ==
    LET records == prop(ev, "Records")
    IN IF falsy(ev) THEN Throw("Missing event")
       ELSE IF ~isObject(ev) THEN Throw("Non-object event")
       ELSE IF falsy(records) THEN Throw("Event is missing Records array")
       ELSE IF records.type # "array" THEN Throw("Event has non-array Records field")
       ELSE IF Len(records.items) # 1
       THEN Throw("Event Records array has length " \o ToString(Len(records.items))
                  \o "; expected 1")
       ELSE validateRecord(records.items[1])

\* variant: a record without recipients yields an empty list
parseRecordLenient(record) ==
    LET recipients == prop(record.ses.receipt, "recipients")
        others == {i \in 1..Len(recipients.items) : recipients.items[i].type # "string"}
    IN IF falsy(recipients) \/ recipients.type # "array"
       THEN Return(<<record.ses.mail, << >>>>)
       ELSE IF others # {}
       THEN Throw(typeError(recipients.items[CHOOSE i \in others : \A j \in others : i <= j],
                            "recipient", "toLowerCase"))
       ELSE Return(<<record.ses.mail,
                     [i \in 1..Len(recipients.items) |->
                         toLowerCase(recipients.items[i].value)]>>)

\* variant: the recipients are taken as received
parseRecordAsReceived(record) ==
    LET recipients == prop(record.ses.receipt, "recipients")
        others == {i \in 1..Len(recipients.items) : recipients.items[i].type # "string"}
    IN IF falsy(recipients) \/ recipients.type # "array" \/ Len(recipients.items) = 0
       THEN Throw("Record did not contain recipients")
       ELSE IF others # {}
       THEN Throw(typeError(recipients.items[CHOOSE i \in others : \A j \in others : i <= j],
                            "recipient", "toLowerCase"))
       ELSE Return(<<record.ses.mail,
                     [i \in 1..Len(recipients.items) |-> recipients.items[i].value]>>)

\* parseRecord returns [mail, recipients in lower case]; the first recipient
\* that is not a string makes recipient.toLowerCase() throw a TypeError
parseRecord(record) ==
    LET recipients == prop(record.ses.receipt, "recipients")
        others == {i \in 1..Len(recipients.items) : recipients.items[i].type # "string"}
    IN IF falsy(recipients) \/ recipients.type # "array" \/ Len(recipients.items) = 0
       THEN Throw("Record did not contain recipients")
       ELSE IF others # {}
       THEN Throw(typeError(recipients.items[CHOOSE i \in others : \A j \in others : i <= j],
                            "recipient", "toLowerCase"))
       ELSE Return(<<record.ses.mail,
                     [i \in 1..Len(recipients.items) |->
                         toLowerCase(recipients.items[i].value)]>>)

buildS3Params(mail) ==
    [Bucket |-> emailBucket, Key |-> emailPrefix \o template(prop(mail, "messageId"))]

buildS3Url(params) == "s3://" \o params.Bucket \o "/" \o params.Key

\* fetchMessage, given what s3Client.getObject answers
fetchMessage(params, response) ==
    IF response.type = "error"
    THEN Throw("Failed to get mail content from S3 <" \o buildS3Url(params) \o ">: "
               \o response.message)
    ELSE IF falsy(response.Body)
    THEN Throw("Failed to get mail content from S3 <" \o buildS3Url(params) \o ">: "
               \o "Received empty Body")
    ELSE Return(response.Body.value)

\* variant: the message is sent from the first target
rawEmailParamsFromTarget(recipients, source, message) ==
    [Destinations |-> recipients, Source |-> recipients[1], RawMessage |-> [Data |-> message]]

\* the params forwardMessage builds for sesClient.sendRawEmail
rawEmailParams(recipients, source, message) ==
    [Destinations |-> recipients, Source |-> source, RawMessage |-> [Data |-> message]]

\* forwardMessage, given what sesClient.sendRawEmail answers
forwardMessage(suppress, response) ==
    IF suppress \/ response.type # "error" THEN Return(Undefined)
    ELSE Throw("Failed to forward email: " \o response.message)

\* variant: the report leaves out the S3 object of the message
reportTextNoLocation(errorMessage, url, message) ==
    "Reba failed to process a message with "
       \o (IF errorMessage # "" THEN "the following error:" ELSE "an unknown error.")
       \o "\n\n"
       \o (IF errorMessage # "" THEN "  " \o errorMessage \o "\n\n" ELSE "")
       \o (IF message # "" THEN "Original message follows:\n\n" \o message \o "\n" ELSE "")

\* the text reportError sends to the postmaster
reportText(errorMessage, url, message) ==
    "Reba failed to process a message with "
       \o (IF errorMessage # "" THEN "the following error:" ELSE "an unknown error.")
       \o "\n\n"
       \o (IF errorMessage # "" THEN "  " \o errorMessage \o "\n\n" ELSE "")
       \o (IF url # "" THEN "Message S3 object: " \o url \o "\n\n" ELSE "")
       \o (IF message # "" THEN "Original message follows:\n\n" \o message \o "\n" ELSE "")

\* the params reportError builds for sesClient.sendEmail
reportParams(errorMessage, url, message, cfg) ==
    [Destination |-> [ToAddresses |-> <<cfg.postmaster>>],
     Source |-> cfg.postmaster,
     Message |-> [Body |-> [Text |-> [Charset |-> "UTF-8",
                                       Data |-> reportText(errorMessage, url, message)]],
                  Subject |-> [Charset |-> "UTF-8",
                               Data |-> "[Reba] Mail processing failure"]]]

(***************************************************************************)
(* One handler invocation: an action for each call the handler makes.      *)
(***************************************************************************)
\* receipt.recipients as SES delivers it, and the malformed cases: no list,
\* a string, a list with an element that is not a string
RecipientsCases(pool) ==
    {Arr([i \in DOMAIN l |-> Str(l[i])]) : l \in ListsUpTo(pool, MaxRecipients)}
       \cup {Undefined, Str("x@y"), Arr(<<Str("ok@yourdomain.com"), Undefined>>),
             Arr(<<Arr(<<Str("ok@yourdomain.com")>>)>>)}

\* events validateSesEvent refuses
InvalidEvents ==
    LET mail == Mail("m1", Undefined)
        receipt == Receipt(Arr(<<Str("ok@yourdomain.com")>>))
        ses == Ses(mail, receipt)
        record == Record(Str("aws:ses"), Str("1.0"), ses)
    IN {Undefined, Str("event"), Arr(<<record>>), Buffer("event"),
        Event(Undefined), Event(Str("records")), Event(Buffer("records")),
        Event(Arr(<< >>)), Event(Arr(<<record, record>>)),
        Event(Arr(<<Undefined>>)), Event(Arr(<<Str("record")>>)),
        Event(Arr(<<Arr(<<record>>)>>)),
        Event(Arr(<<Record(Str("aws:sns"), Str("1.0"), ses)>>)),
        Event(Arr(<<Record(Undefined, Str("1.0"), ses)>>)),
        Event(Arr(<<Record(Arr(<<Str("aws:ses")>>), Str("1.0"), ses)>>)),
        Event(Arr(<<Record(Str("aws:ses"), Str("2.0"), ses)>>)),
        Event(Arr(<<Record(Str("aws:ses"), [type |-> "object"], ses)>>)),
        Event(Arr(<<Record(Str("aws:ses"), Str("1.0"), Undefined)>>)),
        Event(Arr(<<Record(Str("aws:ses"), Str("1.0"), Str("ses"))>>)),
        Event(Arr(<<Record(Str("aws:ses"), Str("1.0"), Arr(<<mail, receipt>>))>>)),
        Event(Arr(<<Record(Str("aws:ses"), Str("1.0"), Ses(Undefined, receipt))>>)),
        Event(Arr(<<Record(Str("aws:ses"), Str("1.0"), Ses(Str("mail"), receipt))>>)),
        Event(Arr(<<Record(Str("aws:ses"), Str("1.0"), Ses(mail, Undefined))>>)),
        Event(Arr(<<Record(Str("aws:ses"), Str("1.0"), Ses(mail, Str("receipt")))>>))}

\* events validateSesEvent accepts whose subject is not a string: an array of
\* strings, a Buffer, an object
SubjectEvents ==
    {Event(Arr(<<Record(Str("aws:ses"), Str("1.0"),
                        Ses(Mail("m1", subj), Receipt(Arr(rcpts))))>>)) :
        subj \in {Arr(<<Str("MAKE.MONEY.FAST")>>), Arr(<<Str("hello"), Str("x")>>),
                  Buffer("MAKE.MONEY.FAST today"), [type |-> "object"]},
        rcpts \in {<<Str("ok@yourdomain.com")>>, <<Str("nobody@elsewhere.net")>>,
                   <<Str("Abuse@YourDomain.com"), Str("ok@yourdomain.com")>>}}

\* events validateSesEvent accepts: of the shape SES delivers, with and
\* without a subject, with a subject that is not a string, and with a mail or
\* a receipt that is an object of another shape (an array, a Buffer, an object
\* without the properties read)
ValidEvents ==
    {Event(Arr(<<Record(Str("aws:ses"), Str("1.0"), Ses(Mail("m1", subj), Receipt(rcpts)))>>)) :
        subj \in {Undefined, Str("hello"), Str("MAKE.MONEY.FAST")},
        rcpts \in RecipientsCases({"Abuse@YourDomain.com", "ok@yourdomain.com",
                                  "nobody@elsewhere.net", "Legal@yourotherdomain.org",
                                  "postmaster@elsewhere.net"})}
       \cup SubjectEvents \cup
    {Event(Arr(<<Record(Str("aws:ses"), Str("1.0"), ses)>>)) :
        ses \in {Ses(mail, Receipt(Arr(<<Str("ok@yourdomain.com")>>))) :
                    mail \in {Arr(<< >>), Buffer("mail"),
                              [type |-> "object", messageId |-> Str("m1")],
                              [type |-> "object", commonHeaders |-> [type |-> "object"]]}}
                 \cup {Ses(Mail("m1", Undefined), receipt) :
                          receipt \in {Arr(<<Str("ok@yourdomain.com")>>),
                                       Buffer("receipt")}}}

\* the stored messages the handler is run with
HandlerMessages ==
    {"From: a@b\r\nSubject: hi\r\n\r\nhello\r\n",
     "From: a@b\r\nSubject: hi\r\n\r\ncheap viagra\r\n",
     "From: a@b\r\nbad header\r\n\r\nhello\r\n",
     "Subject: hi\r\n\r\nhello\r\nClick here\r\ncheap viagra\r\n",
     "\r\nhello\r\n",
     ""}

\* what s3Client.getObject answers when the bucket holds one of the messages
GetObjectResponses(messages) ==
    {[type |-> "output", Body |-> Buffer(m)] : m \in messages}
       \cup {[type |-> "output", Body |-> Undefined],
             [type |-> "error", message |-> "Access Denied"]}

\* what sesClient.sendRawEmail and sesClient.sendEmail answer
SendResponses == {[type |-> "output"], [type |-> "error", message |-> "Throttling"]}

Init ==
    /\ pc = "validateSesEvent"
    /\ event \in InvalidEvents \cup ValidEvents
    /\ suppressSend \in BOOLEAN
    /\ \E rules \in {ExampleRules, <<BypassRule, HostRule>>, <<HostRule>>,
                      <<RejectingRule>>} :
          \* the rule with a pattern in its subject list meets the subjects
          \* that are not strings
          /\ rules = <<RejectingRule>> => event \in SubjectEvents
          /\ config = Config(rules, << >>, GlobalSubjectList, GlobalBodyList)
    /\ s3Url = ""
    /\ error = ""
    /\ calls = << >>
    /\ disposition = "none"
    /\ origRecipients = << >>
    /\ subject = Str("")
    /\ RulesLocalsInit
    /\ NoMessage

\* const record = validateSesEvent(event): an error here leaves the handler
ValidateSesEvent ==
    /\ pc = "validateSesEvent"
    /\ LET r == validateSesEvent(event)
       IN IF r.ok
          THEN pc' = "parseRecord" /\ UNCHANGED error
          ELSE pc' = "raised" /\ error' = r.message
    /\ UNCHANGED <<config, event, suppressSend, s3Url, calls, disposition, rulesVars,
                   messageVars>>

\* const [mail, origRecipients] = parseRecord(record)
ParseRecord ==
    /\ pc = "parseRecord"
    /\ LET r == parseRecord(event.Records.items[1])
       IN IF r.ok
          THEN /\ origRecipients' = r.value[2]
               /\ pc' = "processRules"
               /\ UNCHANGED error
          ELSE /\ error' = r.message
               /\ pc' = "reportError"
               /\ UNCHANGED origRecipients
    /\ UNCHANGED <<config, event, suppressSend, s3Url, calls, disposition, subject,
                   recipientIndex, matched, ruleIndex, rejected, newRecipients,
                   firstOrigRecipient, messageVars>>

\* variant: no early return on an empty target list
ProcessRulesNoEarlyReturn ==
    /\ pc = "processRules"
    /\ LET mail == event.Records.items[1].ses.mail
           commonHeaders == prop(mail, "commonHeaders")
           subj == IF prop(commonHeaders, "subject") = Undefined THEN Str("")
                   ELSE prop(commonHeaders, "subject")
       IN \E r \in {IF commonHeaders = Undefined
                    THEN Throw(typeError(commonHeaders, "mail.commonHeaders", "subject"))
                    ELSE processRules(origRecipients, subj, config)} :
          IF ~r.ok
          THEN /\ subject' = (IF commonHeaders = Undefined THEN subject ELSE subj)
               /\ error' = r.message
               /\ pc' = "reportError"
               /\ UNCHANGED <<newRecipients, firstOrigRecipient, s3Url>>
          ELSE /\ subject' = subj
               /\ newRecipients' = r.value[1]
               /\ firstOrigRecipient' = r.value[2]
               /\ s3Url' = buildS3Url(buildS3Params(mail))
               /\ pc' = "fetchMessage"
               /\ UNCHANGED error
    /\ UNCHANGED <<config, event, suppressSend, calls, disposition, origRecipients,
                   recipientIndex, matched, ruleIndex, rejected, messageVars>>

\* processRules(origRecipients, mail.commonHeaders.subject ?? ''), the early
\* return on an empty list, and s3Url = buildS3Url(s3Params).  A mail without
\* commonHeaders makes the argument throw a TypeError; the subject is passed
\* as the event holds it, and one that is not a string can make a subject
\* check of processRules throw a TypeError.  The catch block reports both.
ProcessRules ==
    /\ pc = "processRules"
    /\ LET mail == event.Records.items[1].ses.mail
           commonHeaders == prop(mail, "commonHeaders")
           subj == IF prop(commonHeaders, "subject") = Undefined THEN Str("")
                   ELSE prop(commonHeaders, "subject")
       IN \E r \in {IF commonHeaders = Undefined
                    THEN Throw(typeError(commonHeaders, "mail.commonHeaders", "subject"))
                    ELSE processRules(origRecipients, subj, config)} :
          IF ~r.ok
          THEN /\ subject' = (IF commonHeaders = Undefined THEN subject ELSE subj)
               /\ error' = r.message
               /\ pc' = "reportError"
               /\ UNCHANGED <<newRecipients, firstOrigRecipient, s3Url, disposition>>
          ELSE /\ subject' = subj
               /\ newRecipients' = r.value[1]
               /\ firstOrigRecipient' = r.value[2]
               /\ UNCHANGED error
               /\ IF Len(r.value[1]) = 0
                  THEN /\ disposition' = "CONTINUE"
                       /\ pc' = "returned"
                       /\ UNCHANGED s3Url
                  ELSE /\ s3Url' = buildS3Url(buildS3Params(mail))
                       /\ pc' = "fetchMessage"
                       /\ UNCHANGED disposition
    /\ UNCHANGED <<config, event, suppressSend, calls, origRecipients,
                   recipientIndex, matched, ruleIndex, rejected, messageVars>>

\* origMessage = await fetchMessage(s3Params), two steps: fetchMessage makes
\* the getObject request and the handler is suspended at the await (pc
\* "awaitFetchMessage"); when S3 has answered, the handler goes on with the
\* message or with the error.  While it is suspended the event loop runs
\* other callbacks and invocations, which leave these variables alone.
FetchMessage ==
    \/ /\ pc = "fetchMessage"
       /\ calls' = Append(calls, [op |-> "fetchMessage",
                                  params |-> buildS3Params(event.Records.items[1].ses.mail)])
       /\ pc' = "awaitFetchMessage"
       /\ UNCHANGED <<config, event, suppressSend, s3Url, error, disposition, rulesVars,
                      messageVars>>
    \/ /\ pc = "awaitFetchMessage"
       /\ \E response \in GetObjectResponses(HandlerMessages) :
             LET r == fetchMessage(calls[Len(calls)].params, response)
             IN IF r.ok
                THEN /\ origMessage' = r.value
                     /\ pc' = "processMessage"
                     /\ UNCHANGED error
                ELSE /\ error' = r.message
                     /\ pc' = "reportError"
                     /\ UNCHANGED origMessage
       /\ UNCHANGED <<config, event, suppressSend, s3Url, calls, disposition, rulesVars,
                      lines, lineIndex, headers, newMessageLines, currentHeader,
                      inHeaders, origFrom, result>>

\* variant: an undefined message is handled like a thrown error
ProcessMessageVetoAsError ==
    /\ pc = "processMessage"
    /\ LET r == processMessage(origMessage, firstOrigRecipient, config)
       IN /\ result' = r
          /\ CASE r.kind = "string" ->
                    pc' = "forwardMessage" /\ UNCHANGED <<error, disposition>>
               [] r.kind = "undefined" ->
                    pc' = "reportError" /\ error' = "" /\ UNCHANGED disposition
               [] r.kind = "throw" ->
                    pc' = "reportError" /\ error' = r.value /\ UNCHANGED disposition
    /\ UNCHANGED <<config, event, suppressSend, s3Url, calls, rulesVars, origMessage,
                   lines, lineIndex, headers, newMessageLines, currentHeader, inHeaders,
                   origFrom>>

\* const message = processMessage(origMessage, firstOrigRecipient) and the
\* early return on undefined
ProcessMessage ==
    /\ pc = "processMessage"
    /\ LET r == processMessage(origMessage, firstOrigRecipient, config)
       IN /\ result' = r
          /\ CASE r.kind = "string" ->
                    pc' = "forwardMessage" /\ UNCHANGED <<error, disposition>>
               [] r.kind = "undefined" ->
                    pc' = "returned" /\ disposition' = "CONTINUE" /\ UNCHANGED error
               [] r.kind = "throw" ->
                    pc' = "reportError" /\ error' = r.value /\ UNCHANGED disposition
    /\ UNCHANGED <<config, event, suppressSend, s3Url, calls, rulesVars, origMessage,
                   lines, lineIndex, headers, newMessageLines, currentHeader, inHeaders,
                   origFrom>>

\* await forwardMessage(newRecipients, firstOrigRecipient, message), two
\* steps: forwardMessage builds the params and, unless sending is suppressed,
\* makes the sendRawEmail request, and the handler is suspended at the await
\* (pc "awaitForwardMessage"); then it goes on with the answer
ForwardMessage ==
    \/ /\ pc = "forwardMessage"
       /\ calls' = Append(calls,
             [op |-> "forwardMessage", sent |-> ~suppressSend,
              params |-> rawEmailParams(newRecipients, firstOrigRecipient, result.value)])
       /\ pc' = "awaitForwardMessage"
       /\ UNCHANGED <<config, event, suppressSend, s3Url, error, disposition, rulesVars,
                      messageVars>>
    \/ /\ pc = "awaitForwardMessage"
       /\ \E response \in SendResponses :
             LET r == forwardMessage(suppressSend, response)
             IN IF r.ok
                THEN /\ disposition' = "STOP_RULE"
                     /\ pc' = "returned"
                     /\ UNCHANGED error
                ELSE /\ error' = r.message
                     /\ pc' = "reportError"
                     /\ UNCHANGED disposition
       /\ UNCHANGED <<config, event, suppressSend, s3Url, calls, rulesVars, messageVars>>

\* variant: a failed notification is thrown on to the caller
ReportErrorRethrow ==
    \/ /\ pc = "reportError"
       /\ calls' = Append(calls,
             [op |-> "reportError", sent |-> ~suppressSend, failed |-> FALSE,
              params |-> reportParams(error, s3Url, origMessage, config)])
       /\ pc' = "awaitReportError"
       /\ UNCHANGED <<config, event, suppressSend, s3Url, error, disposition, rulesVars,
                      messageVars>>
    \/ /\ pc = "awaitReportError"
       /\ \E response \in SendResponses :
             /\ calls' = [calls EXCEPT ![Len(calls)].failed =
                             ~suppressSend /\ response.type = "error"]
             /\ IF ~suppressSend /\ response.type = "error"
                THEN pc' = "raised" /\ UNCHANGED disposition
                ELSE pc' = "returned" /\ disposition' = "STOP_RULE"
       /\ UNCHANGED <<config, event, suppressSend, s3Url, error, rulesVars, messageVars>>

\* catch (error): await reportError(error, s3Url, origMessage), then return
\* STOP_RULE; two steps: reportError builds the params and, unless sending is
\* suppressed, makes the sendEmail request, and the handler is suspended at
\* the await (pc "awaitReportError"); a request answered with an error
\* (`failed`) is logged only
ReportError ==
    \/ /\ pc = "reportError"
       /\ calls' = Append(calls,
             [op |-> "reportError", sent |-> ~suppressSend, failed |-> FALSE,
              params |-> reportParams(error, s3Url, origMessage, config)])
       /\ pc' = "awaitReportError"
       /\ UNCHANGED <<config, event, suppressSend, s3Url, error, disposition, rulesVars,
                      messageVars>>
    \/ /\ pc = "awaitReportError"
       /\ \E response \in SendResponses :
             calls' = [calls EXCEPT ![Len(calls)].failed =
                          ~suppressSend /\ response.type = "error"]
       /\ disposition' = "STOP_RULE"
       /\ pc' = "returned"
       /\ UNCHANGED <<config, event, suppressSend, s3Url, error, rulesVars, messageVars>>

Next ==
    \/ ValidateSesEvent
    \/ ParseRecord
    \/ ProcessRules
    \/ FetchMessage
    \/ ProcessMessage
    \/ ForwardMessage
    \/ ReportError

Spec == Init /\ [][Next]_vars

(***************************************************************************)
(* The first revision (src/src/index.ts): processMessage by regular        *)
(* expressions, and the handler that calls processAliases.                 *)
(***************************************************************************)
\* parseRecord of the first revision returns the recipients as received
parseRecordFirst(record) ==
    LET recipients == prop(record.ses.receipt, "recipients")
    IN IF falsy(recipients) \/ recipients.type # "array" \/ Len(recipients.items) = 0
       THEN Throw("Record did not contain recipients")
       ELSE Return(<<record.ses.mail, recipients.items>>)

\* the index of the first line terminator at or after p, Len(s) + 1 if none:
\* where .* and .+ stop
lineEnd(s, p) ==
    LET T == {i \in p..Len(s) : charAt(s, i) \in LineTerminators}
    IN IF T = {} THEN Len(s) + 1 ELSE CHOOSE i \in T : \A j \in T : i <= j

\* the length of what \r?\n matches at e, 0 if it does not match there
newlineAt(s, e) ==
    IF e <= Len(s) /\ charAt(s, e) = "\n" THEN 1
    ELSE IF e < Len(s) /\ SubSeq(s, e, e + 1) = CRLF THEN 2
    ELSE 0

\* ^ with the m flag: the start of the text or the place after a line terminator
isLineStart(s, p) == p = 1 \/ charAt(s, p - 1) \in LineTerminators

\* (?:.+\r?\n)* from p: the index after the non-empty, terminated lines
RECURSIVE linesEnd(_, _)
linesEnd(s, p) ==
    LET e == lineEnd(s, p)
    IN IF e = p \/ newlineAt(s, e) = 0 THEN p ELSE linesEnd(s, e + newlineAt(s, e))

\* message.match(/^((?:.+\r?\n)*)(\r?\n(?:.*\s+)*)/m): header and body, the
\* whole message as header when there is no match. The match starts at the
\* first line start from which non-empty lines lead to \r?\n; the body runs
\* to the last white space character after it.
splitMessage(message) ==
    LET S == {p \in 1..Len(message) :
                 isLineStart(message, p) /\ newlineAt(message, linesEnd(message, p)) > 0}
    IN IF S = {} THEN [header |-> message, body |-> ""]
       ELSE LET p == CHOOSE i \in S : \A j \in S : i <= j
                q == linesEnd(message, p)
                r == q + newlineAt(message, q)
                W == {i \in r..Len(message) : charAt(message, i) \in WhiteSpace}
                end == IF W = {} THEN r - 1 ELSE CHOOSE i \in W : \A j \in W : j <= i
            IN [header |-> SubSeq(message, p, q - 1), body |-> SubSeq(message, q, end)]

\* the text has the prefix at p
prefixAt(s, p, prefix, ignoreCase) ==
    /\ p + Len(prefix) - 1 <= Len(s)
    /\ LET found == SubSeq(s, p, p + Len(prefix) - 1)
       IN IF ignoreCase THEN toLowerCase(found) = toLowerCase(prefix) ELSE found = prefix

\* /^prefix(.*\r?\n)/m matches at p
lineMatches(s, p, prefix, ignoreCase) ==
    /\ isLineStart(s, p)
    /\ prefixAt(s, p, prefix, ignoreCase)
    /\ newlineAt(s, lineEnd(s, p + Len(prefix))) > 0

\* Reply-To with the value of the first From line is added at the end of the
\* header unless a Reply-To line (of any letter case) exists
withReplyTo(header) ==
    IF \E p \in 1..Len(header) : lineMatches(header, p, "Reply-To: ", TRUE) THEN header
    ELSE LET F == {p \in 1..Len(header) : lineMatches(header, p, "From: ", FALSE)}
         IN IF F = {} THEN header
            ELSE LET p == CHOOSE i \in F : \A j \in F : i <= j
                     e == lineEnd(header, p + 6)
                 IN header \o "Reply-To: "
                       \o SubSeq(header, p + 6, e + newlineAt(header, e) - 1)

\* header.replace(/^From: (.*)/mg, ...), from index `from` on
RECURSIVE replaceFroms(_, _, _)
replaceFroms(s, from, recipient) ==
    LET F == {p \in from..Len(s) : isLineStart(s, p) /\ prefixAt(s, p, "From: ", FALSE)}
    IN IF F = {} THEN SubSeq(s, from, Len(s))
       ELSE LET p == CHOOSE i \in F : \A j \in F : i <= j
                e == lineEnd(s, p + 6)
            IN SubSeq(s, from, p - 1) \o "From: "
                  \o rewriteFrom(SubSeq(s, p + 6, e - 1), recipient)
                  \o replaceFroms(s, e, recipient)

\* header.replace(/^prefix(.*)\r?\n/mg, ''), from index `from` on
RECURSIVE removeLines(_, _, _)
removeLines(s, from, prefix) ==
    LET M == {p \in from..Len(s) : lineMatches(s, p, prefix, FALSE)}
    IN IF M = {} THEN SubSeq(s, from, Len(s))
       ELSE LET p == CHOOSE i \in M : \A j \in M : i <= j
                e == lineEnd(s, p + Len(prefix))
            IN SubSeq(s, from, p - 1) \o removeLines(s, e + newlineAt(s, e), prefix)

\* (\s+.*\r?\n)* from c: the index after the continuation lines
RECURSIVE continuationEnd(_, _)
continuationEnd(s, c) ==
    IF c > Len(s) \/ charAt(s, c) \notin WhiteSpace THEN c
    ELSE LET N == {i \in c..Len(s) : charAt(s, i) \notin WhiteSpace}
             c2 == IF N = {} THEN Len(s) + 1 ELSE CHOOSE i \in N : \A j \in N : i <= j
             X == {x \in (c + 1)..c2 : newlineAt(s, lineEnd(s, x)) > 0}
         IN IF X = {} THEN c
            ELSE LET x == CHOOSE i \in X : \A j \in X : j <= i
                     e == lineEnd(s, x)
                 IN continuationEnd(s, e + newlineAt(s, e))

\* header.replace(/^DKIM-Signature: .*\r?\n(\s+.*\r?\n)*/mg, ''), from index
\* `from` on
RECURSIVE removeDkim(_, _)
removeDkim(s, from) ==
    LET M == {p \in from..Len(s) : lineMatches(s, p, "DKIM-Signature: ", FALSE)}
    IN IF M = {} THEN SubSeq(s, from, Len(s))
       ELSE LET p == CHOOSE i \in M : \A j \in M : i <= j
                e == lineEnd(s, p + Len("DKIM-Signature: "))
            IN SubSeq(s, from, p - 1)
                  \o removeDkim(s, continuationEnd(s, e + newlineAt(s, e)))

\* processMessage of the first revision
processMessageFirst(message, firstRecipient) ==
    LET m == splitMessage(message)
        replied == withReplyTo(m.header)
        rewritten == replaceFroms(replied, 1, firstRecipient)
        noReturnPath == removeLines(rewritten, 1, "Return-Path: ")
        noSender == removeLines(noReturnPath, 1, "Sender: ")
    IN removeDkim(noSender, 1) \o m.body

\* fetchMessage of the first revision, given what s3Client.getObject answers
fetchMessageFirst(mail, response) ==
    LET params == buildS3Params(mail)
        url == "s3://" \o params.Bucket \o "/" \o params.Key
    IN IF response.type = "error"
       THEN Throw("Failed to get mail content from S3 <" \o url \o ">: " \o response.message)
       ELSE IF falsy(response.Body)
       THEN Throw("Failed to get mail content from S3 <" \o url \o ">: Received empty Body")
       ELSE Return(response.Body.value)

\* forwardMessage of the first revision, given what sesClient.sendRawEmail answers
forwardMessageFirst(response) ==
    IF response.type # "error" THEN Return(Undefined)
    ELSE Throw("Failed to forward email: " \o response.message)

\* receipt.recipients as SES delivers it, letter case as received
FirstEvents ==
    {Event(Arr(<<Record(Str("aws:ses"), Str("1.0"), Ses(Mail("m1", Undefined), Receipt(rcpts)))>>)) :
        rcpts \in RecipientsCases({"OK@YourDomain.com", "ok@yourdomain.com",
                                  "spamaddress@yourdomain.com",
                                  "buddy@yourotherdomain.org", "nobody@elsewhere.net"})}

\* the stored messages the first revision is run with
FirstMessages ==
    {"From: \"A\" <a@b>\r\nSender: s@y\r\n\r\nhello\r\n",
     "Return-Path: <r@z>\nFrom: a@b\nReply-To: r@z\nDKIM-Signature: v=1;\n b=2\n\nhi there",
     "Subject: hi\r\nFrom: a@b",
     "Subject: hi",
     ""}

InitFirst ==
    /\ pc = "validateSesEventFirst"
    /\ event \in {Undefined, Event(Arr(<< >>))} \cup FirstEvents
    /\ \E aliases \in ListsUpTo(AliasPool, MaxRules) :
          config = Config(<< >>, aliases, << >>, << >>)
    /\ suppressSend = FALSE
    /\ s3Url = ""
    /\ error = ""
    /\ calls = << >>
    /\ disposition = "none"
    /\ origRecipients = << >>
    /\ subject = Str("")
    /\ RulesLocalsInit
    /\ NoMessage

\* const record = validateSesEvent(event), outside the try block
ValidateSesEventFirst ==
    /\ pc = "validateSesEventFirst"
    /\ LET r == validateSesEvent(event)
       IN IF r.ok
          THEN pc' = "parseRecordFirst" /\ UNCHANGED error
          ELSE pc' = "raised" /\ error' = r.message
    /\ UNCHANGED <<config, event, suppressSend, s3Url, calls, disposition, rulesVars,
                   messageVars>>

\* const [mail, origRecipients] = parseRecord(record); an error is logged by
\* the catch block, which notifies nobody.  origRecipients holds strings: with
\* a recipient that is not a string, processAliases throws a TypeError at
\* origRecipient.match(pattern) when there is an alias to try and returns no
\* target when there is none, and the step goes on to the handler's return.
ParseRecordFirst ==
    /\ pc = "parseRecordFirst"
    /\ LET r == parseRecordFirst(event.Records.items[1])
           others == {i \in 1..Len(r.value[2]) : r.value[2][i].type # "string"}
       IN IF ~r.ok
          THEN /\ error' = r.message
               /\ disposition' = "STOP_RULE"
               /\ pc' = "returned"
               /\ UNCHANGED origRecipients
          ELSE IF others = {}
          THEN /\ origRecipients' = [i \in 1..Len(r.value[2]) |-> r.value[2][i].value]
               /\ pc' = "processAliases"
               /\ UNCHANGED <<error, disposition>>
          ELSE IF config.aliases = << >>
          THEN /\ disposition' = "CONTINUE"
               /\ pc' = "returned"
               /\ UNCHANGED <<error, origRecipients>>
          ELSE /\ error' = typeError(r.value[2][CHOOSE i \in others : \A j \in others : i <= j],
                                     "origRecipient", "match")
               /\ disposition' = "STOP_RULE"
               /\ pc' = "returned"
               /\ UNCHANGED origRecipients
    /\ UNCHANGED <<config, event, suppressSend, s3Url, calls, subject, recipientIndex,
                   matched, ruleIndex, rejected, newRecipients, firstOrigRecipient,
                   messageVars>>

\* processAliases: the callback for the next original recipient
AliasesStep ==
    /\ pc = "processAliases"
    /\ recipientIndex < Len(origRecipients)
    /\ recipientIndex' = recipientIndex + 1
    /\ LET st == aliasesCallback(RulesLocals, origRecipients[recipientIndex + 1],
                                  config)
       IN SetRulesLocals(st)
    /\ UNCHANGED <<pc, config, origRecipients, subject, messageVars, handlerVars>>

\* processAliases: return [newRecipients, firstOrigRecipient]
AliasesReturn ==
    /\ pc = "processAliases"
    /\ recipientIndex = Len(origRecipients)
    /\ pc' = "processAliasesDone"
    /\ UNCHANGED <<config, rulesVars, messageVars, handlerVars>>

\* if (newRecipients.length === 0) return { disposition: 'CONTINUE' }
NoAliasRecipients ==
    /\ pc = "processAliasesDone"
    /\ Len(newRecipients) = 0
    /\ disposition' = "CONTINUE"
    /\ pc' = "returned"
    /\ UNCHANGED <<config, event, suppressSend, s3Url, error, calls, rulesVars, messageVars>>

\* const origMessage = await fetchMessage(mail), two steps: the getObject
\* request is made and the handler is suspended at the await (pc
\* "awaitFetchMessageFirst"); then it goes on with the answer
FetchMessageFirst ==
    \/ /\ pc = "processAliasesDone"
       /\ Len(newRecipients) > 0
       /\ calls' = Append(calls, [op |-> "fetchMessage",
                                  params |-> buildS3Params(event.Records.items[1].ses.mail)])
       /\ pc' = "awaitFetchMessageFirst"
       /\ UNCHANGED <<config, event, suppressSend, s3Url, error, disposition, rulesVars,
                      messageVars>>
    \/ /\ pc = "awaitFetchMessageFirst"
       /\ \E response \in GetObjectResponses(FirstMessages) :
             LET r == fetchMessageFirst(event.Records.items[1].ses.mail, response)
             IN IF r.ok
                THEN /\ origMessage' = r.value
                     /\ pc' = "processMessageFirst"
                     /\ UNCHANGED <<error, disposition>>
                ELSE /\ error' = r.message
                     /\ disposition' = "STOP_RULE"
                     /\ pc' = "returned"
                     /\ UNCHANGED origMessage
       /\ UNCHANGED <<config, event, suppressSend, s3Url, calls, rulesVars, lines,
                      lineIndex, headers, newMessageLines, currentHeader, inHeaders,
                      origFrom, result>>

\* const message = processMessage(origMessage, firstOrigRecipient)
ProcessMessageFirst ==
    /\ pc = "processMessageFirst"
    /\ result' = Returned(processMessageFirst(origMessage, firstOrigRecipient))
    /\ pc' = "forwardMessageFirst"
    /\ UNCHANGED <<config, handlerVars, rulesVars, origMessage, lines, lineIndex, headers,
                   newMessageLines, currentHeader, inHeaders, origFrom>>

\* await forwardMessage(newRecipients, firstOrigRecipient, message), two
\* steps: the sendRawEmail request is made and the handler is suspended at
\* the await (pc "awaitForwardMessageFirst"); then it returns
\* { disposition: 'STOP_RULE' } whether or not the catch block ran
ForwardMessageFirst ==
    \/ /\ pc = "forwardMessageFirst"
       /\ calls' = Append(calls,
             [op |-> "forwardMessage", sent |-> TRUE,
              params |-> rawEmailParams(newRecipients, firstOrigRecipient, result.value)])
       /\ pc' = "awaitForwardMessageFirst"
       /\ UNCHANGED <<config, event, suppressSend, s3Url, error, disposition, rulesVars,
                      messageVars>>
    \/ /\ pc = "awaitForwardMessageFirst"
       /\ \E response \in SendResponses :
             LET r == forwardMessageFirst(response)
             IN error' = IF r.ok THEN error ELSE r.message
       /\ disposition' = "STOP_RULE"
       /\ pc' = "returned"
       /\ UNCHANGED <<config, event, suppressSend, s3Url, calls, rulesVars, messageVars>>

NextFirst ==
    \/ ValidateSesEventFirst
    \/ ParseRecordFirst
    \/ AliasesStep
    \/ AliasesReturn
    \/ NoAliasRecipients
    \/ FetchMessageFirst
    \/ ProcessMessageFirst
    \/ ForwardMessageFirst

SpecFirst == InitFirst /\ [][NextFirst]_vars

\* rule resolution in both revisions: processRules run on its own, and the
\* first revision's handler, which runs processAliases
SpecResolution == (InitRules \/ InitFirst) /\ [][NextRules \/ NextFirst]_vars

(***************************************************************************)
(* The second revision (src/unnamed/part_001): processAliases with ||, the *)
(* line-by-line processMessage with its first header pattern, and the      *)
(* handler that reports a failure to the postmaster.                       *)
(***************************************************************************)
\* one callback of origRecipients.forEach in processAliases
aliasesCallbackSecond(st, origRecipient, cfg) ==
    LET i == scanAliases(cfg.aliases, 1, origRecipient)
    IN IF i = 0
       THEN [st EXCEPT !.matched = FALSE, !.ruleIndex = 0, !.rejected = FALSE]
       ELSE IF /\ cfg.aliases[i].rejectPattern.type # "undefined"
               /\ regexMatch(origRecipient, cfg.aliases[i].rejectPattern)
       THEN [st EXCEPT !.matched = TRUE, !.ruleIndex = i, !.rejected = TRUE]
       ELSE [matched |-> TRUE, ruleIndex |-> i, rejected |-> FALSE,
             firstOrigRecipient |-> orElse(st.firstOrigRecipient, origRecipient),
             newRecipients |-> addAll(st.newRecipients, cfg.aliases[i].recipients)]

RECURSIVE aliasesLoopSecond(_, _, _)
aliasesLoopSecond(st, recipients, cfg) ==
    IF Len(recipients) = 0 THEN st
    ELSE aliasesLoopSecond(aliasesCallbackSecond(st, Head(recipients), cfg),
                           Tail(recipients), cfg)

processAliasesSecond(recipients, cfg) ==
    LET st == aliasesLoopSecond(rulesLocals, recipients, cfg)
    IN <<st.newRecipients, st.firstOrigRecipient>>

\* the characters of [A-Za-z0-9-]
HeaderNameChars ==
    DOMAIN LowerOf \cup Range(LowerOf)
       \cup {"0", "1", "2", "3", "4", "5", "6", "7", "8", "9", "-"}

\* length of the longest prefix of s made of header name characters
RECURSIVE nameLength(_)
nameLength(s) ==
    IF s = "" \/ Head(s) \notin HeaderNameChars THEN 0 ELSE 1 + nameLength(Tail(s))

\* headerLine.match(/^([A-Za-z0-9-]+): (.*)$/): the groups, or no match
parseHeaderLineSecond(headerLine) ==
    LET n == nameLength(headerLine)
        value == SubSeq(headerLine, n + 3, Len(headerLine))
    IN IF /\ n > 0
          /\ n + 2 <= Len(headerLine)
          /\ SubSeq(headerLine, n + 1, n + 2) = ": "
          /\ \A i \in 1..Len(value) : charAt(value, i) \notin LineTerminators
       THEN [matched |-> TRUE, key |-> SubSeq(headerLine, 1, n), value |-> value]
       ELSE [matched |-> FALSE, key |-> "", value |-> ""]

\* process the buffered header: omit it, or record and emit it
flushHeaderSecond(st, recipient) ==
    LET headerLine == join(st.currentHeader, " ")
        match == parseHeaderLineSecond(headerLine)
        headerKey == match.key
        lowerHeaderKey == toLowerCase(headerKey)
    IN IF Len(st.currentHeader) = 0 THEN st
       ELSE IF ~match.matched
       THEN [st EXCEPT !.result = Thrown("Failed to parse message headers")]
       ELSE IF \/ isExcludedHeader(headerKey)
               \/ hasOwnProperty(st.headers, lowerHeaderKey) /\ ~isDuplicateAllowed(headerKey)
       THEN [st EXCEPT !.currentHeader = << >>]
       ELSE IF lowerHeaderKey = "from"
       THEN LET headerValue == rewriteFrom(match.value, recipient)
            IN [st EXCEPT !.origFrom = match.value,
                          !.headers = setHeader(st.headers, lowerHeaderKey, headerValue),
                          !.newMessageLines =
                              Append(st.newMessageLines, headerKey \o ": " \o headerValue),
                          !.currentHeader = << >>]
       ELSE [st EXCEPT !.headers = setHeader(st.headers, lowerHeaderKey, match.value),
                       !.newMessageLines = st.newMessageLines \o st.currentHeader,
                       !.currentHeader = << >>]

\* one callback of lines.forEach: a body line is copied as it is
messageLineSecond(st, line, recipient) ==
    IF ~st.inHeaders
    THEN [st EXCEPT !.newMessageLines = Append(st.newMessageLines, line)]
    ELSE IF startsWithSpace(line)
    THEN [st EXCEPT !.currentHeader = Append(st.currentHeader, line)]
    ELSE LET flushed == flushHeaderSecond(st, recipient)
         IN IF flushed.result.kind # "none" THEN flushed
            ELSE IF line = "" THEN endOfHeaders(flushed)
            ELSE [flushed EXCEPT !.currentHeader = <<line>>]

RECURSIVE messageLoopSecond(_, _, _)
messageLoopSecond(st, rest, recipient) ==
    IF st.result.kind # "none" THEN st
    ELSE IF Len(rest) = 0
    THEN [st EXCEPT !.result = Returned(join(st.newMessageLines, CRLF))]
    ELSE messageLoopSecond(messageLineSecond(st, Head(rest), recipient), Tail(rest),
                           recipient)

processMessageSecond(message, recipient) ==
    messageLoopSecond(messageLocals, split(message, CRLF), recipient).result

\* the stored messages the second revision is run with
SecondMessages ==
    {"From: \"A\" <a@b>\r\nSubject: hi\r\n more\r\nSender: s@y\r\n\r\nhello\r\n",
     "From: a@b\r\nX_Id: 1\r\n\r\nhello\r\n",
     "Subject:hi\r\n\r\nhello",
     "Reply-To: \r\nFrom: a@b\r\n\r\ncheap viagra",
     "\r\nhello\r\n",
     ""}

InitSecond ==
    /\ pc = "validateSesEventSecond"
    /\ event \in {Undefined, Event(Arr(<< >>))} \cup FirstEvents
    /\ \E aliases \in ListsUpTo(AliasPool, MaxRules) :
          config = Config(<< >>, aliases, << >>, << >>)
    /\ suppressSend = FALSE
    /\ s3Url = ""
    /\ error = ""
    /\ calls = << >>
    /\ disposition = "none"
    /\ origRecipients = << >>
    /\ subject = Str("")
    /\ RulesLocalsInit
    /\ NoMessage

\* const record = validateSesEvent(event), outside the try block
ValidateSesEventSecond ==
    /\ pc = "validateSesEventSecond"
    /\ LET r == validateSesEvent(event)
       IN IF r.ok
          THEN pc' = "parseRecordSecond" /\ UNCHANGED error
          ELSE pc' = "raised" /\ error' = r.message
    /\ UNCHANGED <<config, event, suppressSend, s3Url, calls, disposition, rulesVars,
                   messageVars>>

\* const [mail, origRecipients] = parseRecord(record), which is the
\* parseRecord of the first revision
ParseRecordSecond ==
    /\ pc = "parseRecordSecond"
    /\ LET r == parseRecordFirst(event.Records.items[1])
           others == {i \in 1..Len(r.value[2]) : r.value[2][i].type # "string"}
       IN IF ~r.ok
          THEN /\ error' = r.message
               /\ pc' = "reportErrorSecond"
               /\ UNCHANGED <<origRecipients, disposition>>
          ELSE IF others = {}
          THEN /\ origRecipients' = [i \in 1..Len(r.value[2]) |-> r.value[2][i].value]
               /\ pc' = "processAliasesSecond"
               /\ UNCHANGED <<error, disposition>>
          ELSE IF config.aliases = << >>
          THEN /\ disposition' = "CONTINUE"
               /\ pc' = "returned"
               /\ UNCHANGED <<error, origRecipients>>
          ELSE /\ error' = typeError(r.value[2][CHOOSE i \in others : \A j \in others : i <= j],
                                     "origRecipient", "match")
               /\ pc' = "reportErrorSecond"
               /\ UNCHANGED <<origRecipients, disposition>>
    /\ UNCHANGED <<config, event, suppressSend, s3Url, calls, subject,
                   recipientIndex, matched, ruleIndex, rejected, newRecipients,
                   firstOrigRecipient, messageVars>>

\* processAliases(origRecipients), the early return on an empty list, and
\* s3Url = buildS3Url(s3Params)
ProcessAliasesSecond ==
    /\ pc = "processAliasesSecond"
    /\ LET r == processAliasesSecond(origRecipients, config)
       IN /\ newRecipients' = r[1]
          /\ firstOrigRecipient' = r[2]
          /\ IF Len(r[1]) = 0
             THEN /\ disposition' = "CONTINUE"
                  /\ pc' = "returned"
                  /\ UNCHANGED s3Url
             ELSE /\ s3Url' = buildS3Url(buildS3Params(event.Records.items[1].ses.mail))
                  /\ pc' = "fetchMessageSecond"
                  /\ UNCHANGED disposition
    /\ UNCHANGED <<config, event, suppressSend, error, calls, origRecipients, subject,
                   recipientIndex, matched, ruleIndex, rejected, messageVars>>

\* origMessage = await fetchMessage(s3Params), two steps: the getObject
\* request is made and the handler is suspended at the await (pc
\* "awaitFetchMessageSecond"); then it goes on with the answer
FetchMessageSecond ==
    \/ /\ pc = "fetchMessageSecond"
       /\ calls' = Append(calls, [op |-> "fetchMessage",
                                  params |-> buildS3Params(event.Records.items[1].ses.mail)])
       /\ pc' = "awaitFetchMessageSecond"
       /\ UNCHANGED <<config, event, suppressSend, s3Url, error, disposition, rulesVars,
                      messageVars>>
    \/ /\ pc = "awaitFetchMessageSecond"
       /\ \E response \in GetObjectResponses(SecondMessages) :
             LET r == fetchMessage(calls[Len(calls)].params, response)
             IN IF r.ok
                THEN /\ origMessage' = r.value
                     /\ pc' = "processMessageSecond"
                     /\ UNCHANGED error
                ELSE /\ error' = r.message
                     /\ pc' = "reportErrorSecond"
                     /\ UNCHANGED origMessage
       /\ UNCHANGED <<config, event, suppressSend, s3Url, calls, disposition, rulesVars,
                      lines, lineIndex, headers, newMessageLines, currentHeader,
                      inHeaders, origFrom, result>>

\* const message = processMessage(origMessage, firstOrigRecipient)
ProcessMessageSecond ==
    /\ pc = "processMessageSecond"
    /\ LET r == processMessageSecond(origMessage, firstOrigRecipient)
       IN /\ result' = r
          /\ IF r.kind = "string"
             THEN pc' = "forwardMessageSecond" /\ UNCHANGED error
             ELSE pc' = "reportErrorSecond" /\ error' = r.value
    /\ UNCHANGED <<config, event, suppressSend, s3Url, calls, disposition, rulesVars,
                   origMessage, lines, lineIndex, headers, newMessageLines, currentHeader,
                   inHeaders, origFrom>>

\* await forwardMessage(newRecipients, firstOrigRecipient, message), which
\* is the forwardMessage of the first revision; two steps: the sendRawEmail
\* request is made and the handler is suspended at the await (pc
\* "awaitForwardMessageSecond"); then it goes on with the answer
ForwardMessageSecond ==
    \/ /\ pc = "forwardMessageSecond"
       /\ calls' = Append(calls,
             [op |-> "forwardMessage", sent |-> TRUE,
              params |-> rawEmailParams(newRecipients, firstOrigRecipient, result.value)])
       /\ pc' = "awaitForwardMessageSecond"
       /\ UNCHANGED <<config, event, suppressSend, s3Url, error, disposition, rulesVars,
                      messageVars>>
    \/ /\ pc = "awaitForwardMessageSecond"
       /\ \E response \in SendResponses :
             LET r == forwardMessageFirst(response)
             IN IF r.ok
                THEN /\ disposition' = "STOP_RULE"
                     /\ pc' = "returned"
                     /\ UNCHANGED error
                ELSE /\ error' = r.message
                     /\ pc' = "reportErrorSecond"
                     /\ UNCHANGED disposition
       /\ UNCHANGED <<config, event, suppressSend, s3Url, calls, rulesVars, messageVars>>

\* catch (error): await reportError(error, s3Url, origMessage), then return
\* STOP_RULE; two steps: the sendEmail request is made and the handler is
\* suspended at the await (pc "awaitReportErrorSecond"); a request answered
\* with an error (`failed`) is logged only
ReportErrorSecond ==
    \/ /\ pc = "reportErrorSecond"
       /\ calls' = Append(calls,
             [op |-> "reportError", sent |-> TRUE, failed |-> FALSE,
              params |-> reportParams(error, s3Url, origMessage, config)])
       /\ pc' = "awaitReportErrorSecond"
       /\ UNCHANGED <<config, event, suppressSend, s3Url, error, disposition, rulesVars,
                      messageVars>>
    \/ /\ pc = "awaitReportErrorSecond"
       /\ \E response \in SendResponses :
             calls' = [calls EXCEPT ![Len(calls)].failed = (response.type = "error")]
       /\ disposition' = "STOP_RULE"
       /\ pc' = "returned"
       /\ UNCHANGED <<config, event, suppressSend, s3Url, error, rulesVars, messageVars>>

NextSecond ==
    \/ ValidateSesEventSecond
    \/ ParseRecordSecond
    \/ ProcessAliasesSecond
    \/ FetchMessageSecond
    \/ ProcessMessageSecond
    \/ ForwardMessageSecond
    \/ ReportErrorSecond

SpecSecond == InitSecond /\ [][NextSecond]_vars

(***************************************************************************)
(* Properties of rule resolution.                                          *)
(***************************************************************************)
InAliases == pc \in {"processAliases", "processAliasesDone"}
InRules == ~InAliases

RuleList == IF InRules THEN config.rules ELSE config.aliases

\* the recipient satisfies the match criteria of rule k
Satisfies(k, r) ==
    IF InRules THEN matchesRule(config.rules[k], r)
    ELSE regexMatch(r, config.aliases[k].pattern)

\* rule k rejects the recipient
Rejects(k, r) ==
    IF InRules THEN rejectedByRule(config.rules[k], r, subject, config).value
    ELSE /\ config.aliases[k].rejectPattern.type # "undefined"
         /\ regexMatch(r, config.aliases[k].rejectPattern)

\* the first rule in declaration order that the recipient satisfies, 0 if none
FirstSatisfied(r) ==
    LET sat == {k \in 1..Len(RuleList) : Satisfies(k, r)}
    IN IF sat = {} THEN 0 ELSE CHOOSE k \in sat : \A j \in sat : k <= j

\* the recipient is accepted: its first matching rule does not reject it
Accepted(r) == LET k == FirstSatisfied(r) IN k # 0 /\ ~Rejects(k, r)

\* C1: in processRules and in processAliases, only the first rule, in
\* declaration order, that the recipient satisfies is applied; when that rule
\* rejects, the callback adds no target and records no primary recipient,
\* whatever later rules would do; otherwise it adds nothing but that rule's
\* targets.  A step that raises recipientIndex is a callback of processRules
\* (RulesStep) or of processAliases (AliasesStep).
C1Step ==
    recipientIndex' = recipientIndex + 1 =>
        LET r == origRecipients[recipientIndex + 1]
            k == FirstSatisfied(r)
        IN /\ ruleIndex' = k
           /\ matched' = (k # 0)
           /\ (k # 0 /\ Rejects(k, r)) =>
                 /\ newRecipients' = newRecipients
                 /\ firstOrigRecipient' = firstOrigRecipient
           /\ Range(newRecipients') \subseteq
                 Range(newRecipients) \cup
                    (IF k # 0 THEN Range(RuleList[k].recipients) ELSE {})

C1_FirstMatchingRuleOnly == [][C1Step]_vars

\* processRules or processAliases has returned no target for a recipient whose
\* first matching rule rejects it and for which a later rule matches and accepts
C1Witness ==
    /\ pc \in {"processRulesDone", "processAliasesDone"}
    /\ Len(origRecipients) = 1
    /\ newRecipients = << >>
    /\ LET r == origRecipients[1]
           k == FirstSatisfied(r)
       IN /\ k # 0
          /\ Rejects(k, r)
          /\ \E j \in (k + 1)..Len(RuleList) : Satisfies(j, r) /\ ~Rejects(j, r)

\* the accepted ones among the first n original recipients
AcceptedUpTo(n) == {i \in 1..n : Accepted(origRecipients[i])}

Least(S) == CHOOSE i \in S : \A j \in S : i <= j

\* C2: processRules returns as primary recipient the first original recipient,
\* in input order, that its first matching rule accepted (a later accepted one
\* has not replaced it), and "" exactly when none was accepted; in the example,
\* bad@ is rejected and ok@ becomes the primary recipient.
C2_PrimaryRecipient ==
    pc = "processRulesDone" =>
        /\ LET acc == AcceptedUpTo(recipientIndex)
           IN /\ firstOrigRecipient =
                    IF acc = {} THEN "" ELSE origRecipients[Least(acc)]
              /\ (firstOrigRecipient = "") = (acc = {})
        /\ ( /\ pc = "processRulesDone"
             /\ origRecipients = <<"bad@yourdomain.com", "ok@yourdomain.com">>
             /\ config.rules = <<HostRule>>
             /\ ~subjectListHits(config.globalRules.rejectIfSubjectContains,
                                 subject).value )
           => /\ newRecipients = HostRule.recipients
              /\ firstOrigRecipient = "ok@yourdomain.com"

\* two recipients were accepted and the first of them is the primary one
C2Witness ==
    /\ pc = "processRulesDone"
    /\ Cardinality(AcceptedUpTo(Len(origRecipients))) = 2
    /\ origRecipients[1] # origRecipients[2]
    /\ firstOrigRecipient = origRecipients[1]

\* the targets of the accepting rules of the first n recipients, in order
RECURSIVE AcceptedTargets(_)
AcceptedTargets(n) ==
    IF n = 0 THEN << >>
    ELSE AcceptedTargets(n - 1) \o
            (IF Accepted(origRecipients[n])
             THEN RuleList[FirstSatisfied(origRecipients[n])].recipients
             ELSE << >>)

FirstIndex(seq, x) == Least({i \in 1..Len(seq) : seq[i] = x})

\* C3: the target list holds no address twice, holds exactly the targets of the
\* rules that accepted a recipient, and lists them in order of first addition.
C3_TargetsDeduplicated ==
    pc \in {"processRulesDone", "processAliasesDone"} =>
    LET all == AcceptedTargets(recipientIndex)
    IN /\ \A i, j \in 1..Len(newRecipients) :
             newRecipients[i] = newRecipients[j] => i = j
       /\ Range(newRecipients) = Range(all)
       /\ \A i, j \in 1..Len(newRecipients) :
             i < j => FirstIndex(all, newRecipients[i]) < FirstIndex(all, newRecipients[j])

\* two accepting rules shared a target, which is listed once
C3Witness ==
    /\ pc \in {"processRulesDone", "processAliasesDone"}
    /\ Len(newRecipients) = 2
    /\ Len(AcceptedTargets(recipientIndex)) = 3

\* the part of the address before the first "@"
LocalPart(r) ==
    IF indexOf(r, "@", 1) = 0 THEN r ELSE SubSeq(r, 1, indexOf(r, "@", 1) - 1)

\* a subject reject list has an entry the subject contains or matches
SubjectHit(list, subj) ==
    \E n \in 1..Len(list) :
        \/ list[n].type = "string" /\ includes(subj, list[n].value)
        \/ list[n].type = "regexp" /\ regexMatch(subj, list[n])

\* C4: a recipient whose first matching rule has no bypass flag is rejected
\* exactly when its local part is in the rule's rejected users, or the address
\* matches the rule's reject pattern, or the subject hits the rule's subject
\* reject list, or the subject hits the global subject reject list.
C4_RejectConditions ==
    (pc \in {"processRules", "processRulesDone"} /\ recipientIndex > 0 /\ matched) =>
        LET r == origRecipients[recipientIndex]
            rule == config.rules[ruleIndex]
        IN ~rule.allowAll =>
              (rejected <=>
                 \/ LocalPart(r) \in Range(rule.rejectUsers)
                 \/ /\ rule.rejectPattern.type = "regexp"
                    /\ regexMatch(r, rule.rejectPattern)
                 \/ SubjectHit(rule.rejectIfSubjectContains, subject.value)
                 \/ SubjectHit(config.globalRules.rejectIfSubjectContains,
                               subject.value))

\* a rule without reject criteria of its own rejected on the global subject list
C4Witness ==
    /\ pc = "processRulesDone"
    /\ recipientIndex > 0
    /\ matched
    /\ rejected
    /\ config.rules[ruleIndex] = ExactRule
    /\ SubjectHit(config.globalRules.rejectIfSubjectContains, subject.value)

\* the first rule the recipient satisfies carries the bypass flag
Bypassed(r) == FirstSatisfied(r) # 0 /\ config.rules[FirstSatisfied(r)].allowAll

\* processRules has returned in this invocation: parseRecord has returned the
\* recipients, the subject could be read from the mail, and no subject check
\* has thrown its TypeError
Resolved ==
    /\ Len(origRecipients) > 0
    /\ pc \notin {"validateSesEvent", "parseRecord", "processRules"}
    /\ prop(event.Records.items[1].ses.mail, "commonHeaders") # Undefined
    /\ \A k \in {"includes", "match"} : error # typeError(subject, "subject", k)

\* the handler called forwardMessage with all the targets of the rule
ForwardedTo(targets) ==
    \E n \in 1..Len(calls) :
        /\ calls[n].op = "forwardMessage"
        /\ Range(targets) \subseteq Range(calls[n].params.Destinations)

\* C5 as stated: when the rule that resolves a recipient has allowAll set, no
\* reject check, the global body-line reject list included, keeps the message
\* from being forwarded to the targets of that rule: an invocation that ends
\* without an error has forwarded to them.
C5_AsStated ==
    \A i \in 1..Len(origRecipients) :
        (pc = "returned" /\ error = "" /\ Bypassed(origRecipients[i])) =>
            ForwardedTo(config.rules[FirstSatisfied(origRecipients[i])].recipients)

\* the part of C5 that processRules decides: the rule's own reject criteria and
\* the global subject reject list do not keep the targets out of the result
C5_RuleLevel ==
    \A i \in 1..Len(origRecipients) :
        (Resolved /\ Bypassed(origRecipients[i])) =>
            Range(config.rules[FirstSatisfied(origRecipients[i])].recipients)
               \subseteq Range(newRecipients)

(***************************************************************************)
(* Properties of the message rewrite.  They read the input as RFC 5322     *)
(* does: the header block is what precedes the first empty line, a header  *)
(* starts at a line that does not start with white space and runs over the *)
(* continuation lines that follow it.                                      *)
(***************************************************************************)
\* the index of the first empty line of a list of lines, 0 if none
BlankIndex(ls) ==
    IF \E i \in 1..Len(ls) : ls[i] = ""
    THEN Least({i \in 1..Len(ls) : ls[i] = ""})
    ELSE 0

\* the header block of a list of lines that has a separator
Block(ls) == SubSeq(ls, 1, BlankIndex(ls) - 1)

\* where the headers of a block start
Starts(block) == {i \in 1..Len(block) : ~startsWithSpace(block[i])}

\* the last line of the header that starts at line i
LastOf(block, i) ==
    Least({j \in i..Len(block) : j = Len(block) \/ ~startsWithSpace(block[j + 1])})

\* the raw lines of the header that starts at line i
RawLines(block, i) == SubSeq(block, i, LastOf(block, i))

\* the name of the header that starts at line i, as written
NameOf(block, i) == SubSeq(block[i], 1, indexOf(block[i], ":", 1) - 1)

LowerNameOf(block, i) == toLowerCase(NameOf(block, i))

\* the value of the header that starts at line i: the text after the colon and
\* one optional white space character, continuation lines joined by a space
ValueOf(block, i) ==
    LET whole == join(RawLines(block, i), " ")
        rest == SubSeq(whole, indexOf(whole, ":", 1) + 1, Len(whole))
    IN IF rest # "" /\ Head(rest) \in WhiteSpace THEN Tail(rest) ELSE rest

\* the headers of a block that carry the given lower-case name
Named(block, name) == {i \in Starts(block) : LowerNameOf(block, i) = name}

\* processMessage returned a message whose input had the blank separator line
Rewritten ==
    /\ pc = "processMessageDone"
    /\ result.kind = "string"
    /\ BlankIndex(lines) # 0

InBlock == Block(lines)
OutBlock == Block(split(result.value, CRLF))

\* a From value with every " removed and < > turned into ( )
RECURSIVE Defanged(_)
Defanged(v) ==
    IF v = "" THEN ""
    ELSE (CASE Head(v) = "\"" -> ""
            [] Head(v) = "<" -> "("
            [] Head(v) = ">" -> ")"
            [] OTHER -> Head(v)) \o Defanged(Tail(v))

\* C6: the first From header of the input is emitted as the single line
\* name: "S" <P>, with the name as written, P the primary recipient and S the
\* original value without any double quote and with ( ) for < >; S holds none
\* of the three characters.
C6_FromRewritten ==
    (Rewritten /\ Named(InBlock, "from") # {}) =>
        LET f == Least(Named(InBlock, "from"))
            S == Defanged(ValueOf(InBlock, f))
            out == Named(OutBlock, "from")
        IN /\ Cardinality(out) = 1
           /\ \A j \in out :
                 /\ OutBlock[j] =
                       NameOf(InBlock, f) \o ": \"" \o S \o "\" <" \o firstOrigRecipient \o ">"
                 /\ LastOf(OutBlock, j) = j
           /\ \A k \in 1..Len(S) : charAt(S, k) \notin {"\"", "<", ">"}

\* a From value with two quotes and two angle brackets was rewritten
C6Witness ==
    /\ Rewritten
    /\ Named(InBlock, "from") # {}
    /\ ValueOf(InBlock, Least(Named(InBlock, "from"))) = "\"A > B\" <x@y>"
    /\ \E j \in 1..Len(OutBlock) : OutBlock[j] = "From: \"A ) B (x@y)\" <ok@yourdomain.com>"

\* the Reply-To headers of a block whose value is not empty or white space
ReplyTos(block) == {i \in Named(block, "reply-to") : ~isBlank(ValueOf(block, i))}

\* C7: when the input has a Reply-To header with a value that is not empty,
\* the rewritten header block has that header, its lines unchanged, and no
\* other Reply-To.
C7_ReplyToKept ==
    (Rewritten /\ ReplyTos(InBlock) # {}) =>
        LET r == Least(ReplyTos(InBlock))
            out == Named(OutBlock, "reply-to")
        IN /\ Cardinality(out) = 1
           /\ \A j \in out :
                 /\ RawLines(OutBlock, j) = RawLines(InBlock, r)
                 /\ ValueOf(OutBlock, j) = ValueOf(InBlock, r)

\* an empty Reply-To, a Reply-To with a value and a From: one Reply-To is kept
C7Witness ==
    /\ Rewritten
    /\ ReplyTos(InBlock) # {}
    /\ Cardinality(Named(InBlock, "reply-to")) = 2
    /\ Cardinality(ReplyTos(InBlock)) = 1
    /\ origFrom # ""
    /\ Cardinality(Named(OutBlock, "reply-to")) = 1

\* what C8 promises: one Reply-To with the original From value, last in the block
ReplyToAdded ==
    LET f == Least(Named(InBlock, "from"))
        out == Named(OutBlock, "reply-to")
    IN /\ Cardinality(out) = 1
       /\ Len(OutBlock) \in out
       /\ OutBlock[Len(OutBlock)] = "Reply-To: " \o ValueOf(InBlock, f)

\* C8 as stated: with no Reply-To kept and a From header present, exactly one
\* Reply-To with the original From value ends the rewritten header block.
C8_AsStated ==
    (Rewritten /\ ReplyTos(InBlock) = {} /\ Named(InBlock, "from") # {}) => ReplyToAdded

\* C8, amended: with no Reply-To kept and a first From header whose value is
\* not empty, exactly one Reply-To with the original, unsanitized From value is
\* the last line of the rewritten header block, after every kept header.
C8_ReplyToAdded ==
    ( /\ Rewritten
      /\ ReplyTos(InBlock) = {}
      /\ Named(InBlock, "from") # {}
      /\ ValueOf(InBlock, Least(Named(InBlock, "from"))) # "" ) => ReplyToAdded

\* an empty Reply-To was dropped and the From value was added as Reply-To
C8Witness ==
    /\ Rewritten
    /\ Named(InBlock, "reply-to") # {}
    /\ ReplyTos(InBlock) = {}
    /\ Named(InBlock, "from") # {}
    /\ OutBlock[Len(OutBlock)] = "Reply-To: \"A > B\" <x@y>"

\* the k-th smallest member of a set of numbers
Kth(S, k) == CHOOSE i \in S : Cardinality({x \in S : x < i}) = k - 1

ExcludedNames == {"return-path", "sender", "dkim-signature"}

\* the headers of the input that are omitted whatever precedes them
Omitted(i) ==
    \/ LowerNameOf(InBlock, i) \in ExcludedNames
    \/ LowerNameOf(InBlock, i) = "reply-to" /\ isBlank(ValueOf(InBlock, i))

\* the headers of the input of a given name that are not omitted
Candidates(name) == {i \in Named(InBlock, name) : ~Omitted(i)}

\* C9 as stated: in the rewritten header block every name but Received occurs
\* at most once, compared without case; the header kept is the first of the
\* input that was not otherwise omitted; every Received header is kept, in order.
C9_AsStated ==
    Rewritten =>
        /\ \A j1, j2 \in Starts(OutBlock) :
              ( /\ LowerNameOf(OutBlock, j1) = LowerNameOf(OutBlock, j2)
                /\ LowerNameOf(OutBlock, j1) # "received" ) => j1 = j2
        /\ \A j \in Starts(OutBlock) :
              LET name == LowerNameOf(OutBlock, j)
              IN (name \notin {"received", "from"} /\ Candidates(name) # {}) =>
                    RawLines(OutBlock, j) = RawLines(InBlock, Least(Candidates(name)))
        /\ Cardinality(Named(OutBlock, "received")) = Cardinality(Named(InBlock, "received"))
        /\ \A k \in 1..Cardinality(Named(InBlock, "received")) :
              RawLines(OutBlock, Kth(Named(OutBlock, "received"), k))
                 = RawLines(InBlock, Kth(Named(InBlock, "received"), k))

\* the same, for messages without a header named __proto__
C9_OrdinaryNames ==
    Named(InBlock, "__proto__") = {} => C9_AsStated

\* flushing a buffered header of an excluded name adds none of its lines
C10Step ==
    ( /\ pc = "processMessage"
      /\ inHeaders
      /\ lineIndex < Len(lines)
      /\ ~startsWithSpace(lines[lineIndex + 1])
      /\ Len(currentHeader) > 0
      /\ ~startsWithSpace(currentHeader[1])
      /\ LowerNameOf(currentHeader, 1) \in ExcludedNames ) =>
        /\ newMessageLines' \in
              {newMessageLines,
               Append(newMessageLines, ""),
               newMessageLines \o <<"Reply-To: " \o origFrom, "">>}
        /\ currentHeader' \in {<< >>, <<lines[lineIndex + 1]>>}

\* no header of the rewritten block carries an excluded name
C10Block ==
    Rewritten => \A j \in Starts(OutBlock) : LowerNameOf(OutBlock, j) \notin ExcludedNames

\* C10: no header named Return-Path, Sender or DKIM-Signature, compared
\* without case, is in the rewritten header block, and the folded continuation
\* lines of such a header are dropped with it.
C10_ExcludedOmitted == [][C10Step]_vars /\ []C10Block

\* a folded sender header was dropped with its continuation line
C10Witness ==
    /\ Rewritten
    /\ \E i \in Named(InBlock, "sender") : LastOf(InBlock, i) > i
    /\ Len(OutBlock) > 0
    /\ \A j \in 1..Len(OutBlock) : ~startsWithSpace(OutBlock[j])

(***************************************************************************)
(* Properties of the handler.                                              *)
(***************************************************************************)
\* the functions the handler has called so far
CalledOps == {calls[n].op : n \in 1..Len(calls)}

\* C11: when rule resolution yields an empty target list the handler returns
\* CONTINUE, has called neither fetchMessage nor forwardMessage nor
\* reportError, and no error was thrown.
C11_EmptyTargetsContinue ==
    (Resolved /\ newRecipients = << >>) =>
        /\ pc = "returned"
        /\ disposition = "CONTINUE"
        /\ calls = << >>
        /\ error = ""

\* two recipients, neither accepted by a rule, and the handler has returned
C11Witness ==
    /\ pc = "returned"
    /\ Len(origRecipients) = 2
    /\ newRecipients = << >>
    /\ disposition = "CONTINUE"

\* the lines of the stored message and where its body starts
StoredLines == split(origMessage, CRLF)
BodyHits ==
    {i \in (BlankIndex(StoredLines) + 1)..Len(StoredLines) :
        BlankIndex(StoredLines) # 0
           /\ SubjectHit(config.globalRules.rejectIfBodyLineContains, StoredLines[i])}

\* processMessage has returned or thrown in this invocation
Processed ==
    /\ pc \in {"forwardMessage", "awaitForwardMessage", "reportError", "awaitReportError",
              "returned"}
    /\ result.kind # "none"

\* C12: when the headers parse and some body line contains a globally rejected
\* string or matches a globally rejected pattern, processMessage returns
\* undefined, decided by the lines up to the first such line, and the handler
\* returns CONTINUE without calling forwardMessage or reportError.
C12_BodyVeto ==
    (Processed /\ result.kind # "throw" /\ BodyHits # {}) =>
        /\ result = Vetoed
        /\ processMessage(join(SubSeq(StoredLines, 1, Least(BodyHits)), CRLF),
                          firstOrigRecipient, config) = Vetoed
        /\ pc = "returned"
        /\ disposition = "CONTINUE"
        /\ CalledOps = {"fetchMessage"}
        /\ error = ""

\* a message with a rejected body line, followed by another line, was vetoed
C12Witness ==
    /\ pc = "returned"
    /\ result = Vetoed
    /\ BodyHits # {}
    /\ Least(BodyHits) < Len(StoredLines)
    /\ disposition = "CONTINUE"

\* C13: once rule resolution has produced a target and the body was not
\* vetoed, the handler raises nothing, whatever fetchMessage, processMessage,
\* forwardMessage and reportError did, and what it returns is STOP_RULE.
C13_StopAfterTargets ==
    (Resolved /\ newRecipients # << >> /\ result # Vetoed) =>
        /\ pc # "raised"
        /\ pc = "returned" => disposition = "STOP_RULE"
        /\ pc \in {"fetchMessage", "awaitFetchMessage", "processMessage",
                  "forwardMessage", "awaitForwardMessage", "reportError",
                  "awaitReportError", "returned"}

\* the send failed and the notification of the postmaster failed too
C13Witness ==
    /\ pc = "returned"
    /\ disposition = "STOP_RULE"
    /\ Len(calls) = 3
    /\ calls[2].op = "forwardMessage"
    /\ calls[3].op = "reportError"
    /\ calls[3].failed

\* a value that is present and an object: not undefined, not a string (for
\* typeof an array and a Buffer are objects too)
IsStructure(v) == v.type \notin {"undefined", "string"}

\* the event the claim C14 is about: not exactly one record, or a record with
\* other discriminators, or without a ses, mail or receipt structure
Malformed(ev) ==
    \/ ~IsStructure(ev)
    \/ prop(ev, "Records").type # "array"
    \/ Len(ev.Records.items) # 1
    \/ LET record == ev.Records.items[1]
       IN \/ ~IsStructure(record)
          \/ prop(record, "eventSource") # Str("aws:ses")
          \/ prop(record, "eventVersion") # Str("1.0")
          \/ ~IsStructure(prop(record, "ses"))
          \/ ~IsStructure(prop(record.ses, "mail"))
          \/ ~IsStructure(prop(record.ses, "receipt"))

\* C14: for an event without exactly one record, with other discriminators
\* than 'aws:ses' and '1.0', or without a ses, mail or receipt structure, the
\* handler raises an error and returns no disposition; no rule resolution, no
\* fetchMessage, no forwardMessage and no reportError happens.
C14_InvalidEventRaises ==
    (Malformed(event) /\ pc # "validateSesEvent") =>
        /\ pc = "raised"
        /\ error # ""
        /\ disposition = "none"
        /\ calls = << >>
        /\ origRecipients = << >>
        /\ newRecipients = << >>
        /\ firstOrigRecipient = ""

\* an event whose record has version 2.0 was refused
C14Witness ==
    /\ pc = "raised"
    /\ error = "Record has eventVersion '2.0'; expected '1.0'"
    /\ IsStructure(event)
    /\ event.Records.type = "array"
    /\ Len(event.Records.items) = 1
    /\ IsStructure(event.Records.items[1])
    /\ event.Records.items[1].eventVersion = Str("2.0")

\* every event that is not malformed passes validateSesEvent
C14_OthersPass ==
    (~Malformed(event) /\ pc # "validateSesEvent") => pc # "raised"

\* a mail or receipt that is an array or a Buffer is an object for
\* validateSesEvent: the handler fails inside the try block, notifies the
\* postmaster once and returns STOP_RULE
C14_ArraysReported ==
    (/\ ~Malformed(event)
     /\ \/ event.Records.items[1].ses.mail.type \in {"array", "buffer"}
        \/ event.Records.items[1].ses.receipt.type \in {"array", "buffer"}
     /\ pc = "returned") =>
        /\ disposition = "STOP_RULE"
        /\ Len(calls) = 1
        /\ calls[1].op = "reportError"
        /\ error # ""

(***************************************************************************)
(* Properties of message parsing.                                          *)
(***************************************************************************)
\* the input starts with a continuation line: no header is buffered yet
StartsWithContinuation == Len(lines) > 0 /\ startsWithSpace(lines[1])

\* C15 as stated: when a line starting with white space comes before any
\* header line has been buffered, processMessage throws; it never returns a
\* rewritten message for such input.
C15_AsStated ==
    (pc = "processMessageDone" /\ StartsWithContinuation) => result.kind = "throw"

\* the part of C15 that holds: the leading continuation lines are refused as
\* soon as a line that does not start with white space follows them
C15_WhenFollowed ==
    ( /\ pc = "processMessageDone"
      /\ StartsWithContinuation
      /\ \E i \in 1..Len(lines) : ~startsWithSpace(lines[i]) ) =>
        /\ result.kind = "throw"
        /\ SubSeq(result.value, 1, Len("Failed to parse message header:"))
              = "Failed to parse message header:"

\* C16 as stated: processMessage never succeeds with zero headers: it throws
\* when the blank separator line is reached with no header accumulated, and
\* also when the separator is never found and no header was accumulated.
C16_AsStated ==
    (pc = "processMessageDone" /\ Len(headers) = 0) => result.kind = "throw"

\* the part of C16 that holds: past the blank separator line the header set
\* is never empty
C16_AtSeparator ==
    (pc = "processMessageDone" /\ BlankIndex(lines) # 0 /\ Len(headers) = 0) =>
        result.kind = "throw"

\* the lines after the blank separator line
BodyLines == SubSeq(lines, BlankIndex(lines) + 1, Len(lines))

\* no body line contains or matches an entry of the global body reject list
BodyClean ==
    \A i \in 1..Len(BodyLines) :
        ~SubjectHit(config.globalRules.rejectIfBodyLineContains, BodyLines[i])

\* the line the From header that starts at line f is rewritten to
RewrittenFrom(f) ==
    NameOf(InBlock, f) \o ": \"" \o Defanged(ValueOf(InBlock, f)) \o "\" <"
       \o firstOrigRecipient \o ">"

\* the message C17 is about: a separator, headers that start with a header
\* line, none excluded, no name twice, a Reply-To with a value, a clean body
RoundTripInput ==
    /\ BlankIndex(lines) # 0
    /\ ~StartsWithContinuation
    /\ \A i \in Starts(InBlock) : LowerNameOf(InBlock, i) \notin ExcludedNames
    /\ \A i, j \in Starts(InBlock) :
          LowerNameOf(InBlock, i) = LowerNameOf(InBlock, j) => i = j
    /\ ReplyTos(InBlock) # {}
    /\ BodyClean

\* C17: for a message with a separator, no excluded header, no header name
\* twice, a Reply-To with a value and no rejected body line, the output is the
\* input, byte for byte, except that the line or lines of the From header are
\* replaced by the rewritten From line.
C17_RoundTrip ==
    (pc = "processMessageDone" /\ RoundTripInput) =>
        /\ result.kind = "string"
        /\ IF Named(InBlock, "from") = {}
           THEN result.value = origMessage
           ELSE LET f == Least(Named(InBlock, "from"))
                IN result.value =
                      join(SubSeq(lines, 1, f - 1) \o <<RewrittenFrom(f)>>
                              \o SubSeq(lines, LastOf(InBlock, f) + 1, Len(lines)), CRLF)

\* a CRLF-terminated message with a Reply-To, a folded From and a body
C17Witness ==
    /\ pc = "processMessageDone"
    /\ RoundTripInput
    /\ lines[Len(lines)] = ""
    /\ Len(BodyLines) > 2
    /\ \E f \in Named(InBlock, "from") : LastOf(InBlock, f) > f
    /\ result.kind = "string"

\* C18: when no body line contains or matches a global body reject entry,
\* processMessage does not veto, and the lines after the first blank line of
\* the input are emitted unchanged, in order, blank ones included, after the
\* single blank line that ends the rewritten header block, joined with CRLF.
C18_BodyUnchanged ==
    (pc = "processMessageDone" /\ (BlankIndex(lines) = 0 \/ BodyClean)) =>
        /\ result # Vetoed
        /\ (result.kind = "string" /\ BlankIndex(lines) # 0) =>
              LET out == split(result.value, CRLF)
                  k == BlankIndex(out)
              IN /\ k > 1
                 /\ SubSeq(out, k + 1, Len(out)) = BodyLines
                 /\ result.value = join(OutBlock \o <<"">> \o BodyLines, CRLF)

\* a body with a blank line in it was copied
C18Witness ==
    /\ pc = "processMessageDone"
    /\ result.kind = "string"
    /\ BlankIndex(lines) # 0
    /\ BodyLines = <<"hello", "", "bye", "">>
    /\ Len(OutBlock) = 3

\* the positions of the call log that hold a call of the given function
CallsOf(op) == {n \in 1..Len(calls) : calls[n].op = op}

\* C19: in one invocation forwardMessage is called at most once (no retry after
\* a failure) and only after fetchMessage and processMessage have succeeded,
\* with exactly the resolved target list, the primary recipient as source and
\* the rewritten message; fetchMessage is called at most once.
C19_SendOnce ==
    /\ Cardinality(CallsOf("forwardMessage")) <= 1
    /\ Cardinality(CallsOf("fetchMessage")) <= 1
    /\ \A n \in CallsOf("forwardMessage") :
          LET resolved == processRules(origRecipients, subject, config).value
              message == processMessage(origMessage, firstOrigRecipient, config)
          IN /\ \E k \in CallsOf("fetchMessage") : k < n
             /\ CallsOf("reportError") \cap 1..n = {}
             /\ origMessage \in HandlerMessages
             /\ message.kind = "string"
             /\ calls[n].params.Destinations = resolved[1]
             /\ calls[n].params.Source = resolved[2]
             /\ calls[n].params.RawMessage.Data = message.value

\* a message was sent to two targets and the handler has returned
C19Witness ==
    /\ pc = "returned"
    /\ error = ""
    /\ Len(calls) = 2
    /\ calls[2].op = "forwardMessage"
    /\ calls[2].sent
    /\ Len(calls[2].params.Destinations) = 2

\* a failed send is followed by the notification only
C19_NoRetry ==
    (pc = "returned" /\ error = "Failed to forward email: Throttling") =>
        /\ Len(calls) = 3
        /\ calls[3].op = "reportError"

(***************************************************************************)
(* Properties of the match criteria.                                       *)
(***************************************************************************)
\* the text after the first "@" of the recipient, up to its end
AfterAt(r) == SubSeq(r, indexOf(r, "@", 1) + 1, Len(r))

\* the text between the first "@" of the recipient and the next "@" or the end
HostPart(r) ==
    LET rest == AfterAt(r)
    IN IF indexOf(rest, "@", 1) = 0 THEN rest ELSE SubSeq(rest, 1, indexOf(rest, "@", 1) - 1)

\* the pattern matches the recipient from its first to its last character
FullMatch(r, re) ==
    \E a \in re.alts : Len(a) = Len(r) /\ matchesAt(r, 1, a, re.ignoreCase)

HasCriterion(rule) ==
    rule.matchExact # "" \/ rule.matchHost # "" \/ rule.matchPattern.type # "undefined"

\* the recipient satisfies the criteria of the rule, as C20 states them
StatedMatch(rule, r) ==
    /\ HasCriterion(rule)
    /\ rule.matchExact # "" => r = rule.matchExact
    /\ rule.matchHost # "" => (indexOf(r, "@", 1) # 0 /\ AfterAt(r) = rule.matchHost)
    /\ rule.matchPattern.type # "undefined" => FullMatch(r, rule.matchPattern)

\* the same with the host read as the text between the first two "@" and the
\* pattern as a search
SearchMatch(rule, r) ==
    /\ HasCriterion(rule)
    /\ rule.matchExact # "" => r = rule.matchExact
    /\ rule.matchHost # "" => (indexOf(r, "@", 1) # 0 /\ HostPart(r) = rule.matchHost)
    /\ rule.matchPattern.type # "undefined" => regexMatch(r, rule.matchPattern)

\* a callback of processRules has run
AfterCallback == pc \in {"processRules", "processRulesDone"} /\ recipientIndex > 0

\* C20 as stated: a recipient satisfies an exact criterion only when equal to
\* it, a host criterion exactly when what follows its "@" is the host, and a
\* pattern criterion exactly when the pattern matches the full string; the
\* callback stops at the first rule so satisfied.
C20_AsStated ==
    AfterCallback =>
        LET r == origRecipients[recipientIndex]
        IN /\ matched => StatedMatch(config.rules[ruleIndex], r)
           /\ \A j \in 1..Len(config.rules) :
                 (~matched \/ j < ruleIndex) => ~StatedMatch(config.rules[j], r)

\* C20, amended: a recipient satisfies an exact criterion only when equal to
\* it, a host criterion exactly when the text between its first "@" and the
\* next "@" (or its end) is the host, and a pattern criterion exactly when the
\* pattern matches somewhere in it, as far as the pattern's own anchors allow.
C20_MatchCriteria ==
    AfterCallback =>
        LET r == origRecipients[recipientIndex]
        IN /\ matched => SearchMatch(config.rules[ruleIndex], r)
           /\ \A j \in 1..Len(config.rules) :
                 (~matched \/ j < ruleIndex) => ~SearchMatch(config.rules[j], r)

\* a pattern matched a prefix of one address, and a host criterion matched an
\* address with a second "@"
C20Witness ==
    /\ pc = "processRulesDone"
    /\ config.rules = <<BypassRule, HostRule>>
    /\ origRecipients = <<"abuse@yourdomain.com", "ok@yourdomain.com@elsewhere.net">>
    /\ matched
    /\ ruleIndex = 2
    /\ newRecipients = <<Buddy, You>>


-----------------------------------------------------------------------------
(* Resolution of extended recipient lists *)

IsPrefix(s, t) == Len(s) <= Len(t) /\ SubSeq(t, 1, Len(s)) = s

\* what processRules returns for the first n original recipients
ResolvedUpTo(n) == processRules(SubSeq(origRecipients, 1, n), subject, config).value

\* C21: with R the first n original recipients and S the rest, the targets
\* returned for R are a prefix of the targets returned for R followed by S,
\* and a non-empty primary recipient returned for R is the one returned for
\* R followed by S.
C21_ExtensionKeepsPrefix ==
    pc = "processRulesDone" =>
        \A n \in 0..Len(origRecipients) :
            LET r == ResolvedUpTo(n)
            IN /\ IsPrefix(r[1], newRecipients)
               /\ r[2] # "" => firstOrigRecipient = r[2]

\* R resolves to targets and a primary recipient, and S adds further targets
C21Witness ==
    /\ pc = "processRulesDone"
    /\ Len(origRecipients) = 2
    /\ LET r == ResolvedUpTo(1)
       IN /\ Len(r[1]) > 0
          /\ r[2] = origRecipients[1]
          /\ Len(newRecipients) > Len(r[1])
    /\ Accepted(origRecipients[2])

-----------------------------------------------------------------------------
(* Rules without match criteria *)

\* C22 as stated: a rule with none of the three match criteria is rejected when
\* the configuration is loaded, so processRules never runs against a rule
\* list that holds such a rule.
C22_AsStated ==
    AfterCallback => \A j \in 1..Len(config.rules) : HasCriterion(config.rules[j])

-----------------------------------------------------------------------------
(* Primary recipient of processAliases *)

\* C23 as stated: the second value processAliases returns is the first
\* original recipient that an alias rule matched without hitting its reject
\* pattern, hence not "" whenever the returned target list is not empty, and
\* it is the Source of the message the handler passes to the transport.
C23_AsStated ==
    /\ pc = "processAliasesDone" =>
          LET acc == AcceptedUpTo(recipientIndex)
          IN /\ acc # {} => firstOrigRecipient = origRecipients[Least(acc)]
             /\ Len(newRecipients) > 0 => firstOrigRecipient # ""
    /\ \A n \in 1..Len(calls) :
          calls[n].op = "forwardMessage" =>
              /\ calls[n].params.Source # ""
              /\ calls[n].params.Source \in Range(origRecipients)

\* what the code does: '' ?? origRecipient is '', so "" is returned always
\* and "" is the Source of every message sent
C23_AlwaysEmpty ==
    /\ firstOrigRecipient = ""
    /\ \A n \in 1..Len(calls) :
          calls[n].op = "forwardMessage" => calls[n].params.Source = ""

-----------------------------------------------------------------------------
(* Operator notification *)

\* the text holds the part somewhere
Contains(text, part) ==
    \E i \in 1..(Len(text) - Len(part) + 1) : SubSeq(text, i, i + Len(part) - 1) = part

\* the text of the n-th call's report
ReportData(n) == calls[n].params.Message.Body.Text.Data

HasLocation(text) == s3Url # "" /\ Contains(text, "Message S3 object: " \o s3Url \o "\n\n")

HasMessageText(text) == Contains(text, "Original message follows:\n\n")

\* where the caught failure happened
\* fetchMessage threw
FetchFailed == error # "" /\ CallsOf("fetchMessage") # {} /\ result.kind = "none"
\* processMessage threw
ParseFailed == error # "" /\ result.kind = "throw"
\* forwardMessage threw
TransportFailed == error # "" /\ result.kind = "string"

\* reportError is called once after a caught failure and not otherwise
ReportedOncePerFailure ==
    /\ pc = "returned" =>
          /\ Cardinality(CallsOf("reportError")) = (IF error # "" THEN 1 ELSE 0)
          /\ error # "" => calls[Len(calls)].op = "reportError"
          /\ disposition = "CONTINUE" => error = ""
    /\ pc = "awaitReportError" =>
          /\ error # ""
          /\ Cardinality(CallsOf("reportError")) = 1
          /\ calls[Len(calls)].op = "reportError"
    /\ pc \notin {"awaitReportError", "returned"} => CallsOf("reportError") = {}

\* C24 as stated: reportError is called exactly once on every caught failure
\* and never otherwise; after a failed fetchMessage the report has the S3
\* object but no original message, after a failed processMessage or
\* forwardMessage it has both.
C24_AsStated ==
    /\ ReportedOncePerFailure
    /\ (pc = "returned" /\ error # "") =>
          LET text == ReportData(Len(calls))
          IN /\ FetchFailed => HasLocation(text) /\ ~HasMessageText(text)
             /\ (ParseFailed \/ TransportFailed) =>
                   HasLocation(text) /\ HasMessageText(text)

\* C24, amended: reportError is called exactly once on every caught failure
\* and never otherwise; after a failed fetchMessage the report has the S3
\* object but no original message; after a failed processMessage or
\* forwardMessage it has the S3 object and the original message, except that
\* a fetched message that is the empty string, which processMessage always
\* refuses, is reported with the S3 object only.
C24_ReportContext ==
    /\ ReportedOncePerFailure
    /\ (pc = "returned" /\ error # "") =>
          LET text == ReportData(Len(calls))
          IN /\ FetchFailed => HasLocation(text) /\ ~HasMessageText(text)
             /\ (ParseFailed \/ TransportFailed) =>
                   /\ HasLocation(text)
                   /\ HasMessageText(text) = (origMessage # "")
                   /\ origMessage # "" =>
                         Contains(text, "Original message follows:\n\n"
                                           \o origMessage \o "\n")
             /\ TransportFailed => origMessage # ""
             /\ (ParseFailed /\ origMessage = "") => error = "Message had no headers (started with blank line)"

\* a message that was fetched and refused by processMessage has been reported
C24Witness ==
    /\ pc = "returned"
    /\ ParseFailed
    /\ origMessage # ""
    /\ Cardinality(CallsOf("reportError")) = 1
    /\ HasMessageText(ReportData(Len(calls)))

-----------------------------------------------------------------------------
(* Primary recipient and targets in the handler *)

\* the recipients of the event's record, as received
EventRecipients ==
    LET items == event.Records.items[1].ses.receipt.recipients.items
    IN [i \in 1..Len(items) |-> items[i].value]

\* C25: after processRules a non-empty target list comes with a non-empty
\* primary recipient that is one of the lower-cased original recipients, and
\* forwardMessage is never called with an empty source or an empty list of
\* destinations.
C25_PrimaryWithTargets ==
    /\ (Resolved /\ Len(newRecipients) > 0) =>
          /\ firstOrigRecipient # ""
          /\ \E i \in 1..Len(EventRecipients) :
                firstOrigRecipient = toLowerCase(EventRecipients[i])
    /\ \A n \in CallsOf("forwardMessage") :
          /\ calls[n].params.Source # ""
          /\ Len(calls[n].params.Destinations) > 0
          /\ calls[n].params.Source = firstOrigRecipient
          /\ calls[n].params.Destinations = newRecipients

\* forwardMessage was called for an event whose second recipient, received
\* with capitals, is the one resolution accepted
C25Witness ==
    /\ pc = "returned"
    /\ Resolved
    /\ CallsOf("forwardMessage") # {}
    /\ Len(EventRecipients) = 2
    /\ EventRecipients[2] = "Abuse@YourDomain.com"
    /\ firstOrigRecipient = "abuse@yourdomain.com"
    /\ Len(newRecipients) > 0

-----------------------------------------------------------------------------
(* Input without the blank separator line *)

\* where the buffered groups of lines start: the headers, and the continuation
\* lines that come before any header
Groups(ls) == Starts(ls) \cup (IF Len(ls) > 0 /\ startsWithSpace(ls[1]) THEN {1} ELSE {})

\* the group that is in the buffer when the input ends
LastGroup(ls) == CHOOSE i \in Groups(ls) : \A j \in Groups(ls) : j <= i

\* the group that starts at line i is a header the header pattern accepts
Parses(ls, i) == parseHeaderLine(join(RawLines(ls, i), " ")).matched

\* processMessage is done with input that has no blank separator line
Unterminated == pc = "processMessageDone" /\ BlankIndex(lines) = 0

\* the line is the rewritten form of a From header before line n
RewrittenFromLine(o, n) ==
    \E i \in Starts(lines) :
        /\ i < n
        /\ LowerNameOf(lines, i) = "from"
        /\ o = NameOf(lines, i) \o ": \"" \o Defanged(ValueOf(lines, i)) \o "\" <"
                  \o firstOrigRecipient \o ">"

\* the header in the buffer at the end of the input was not processed: it is
\* still buffered, and the output holds nothing but lines of the headers
\* before it, a From line rewritten, and no empty line
LastHeaderDropped ==
    LET last == LastGroup(lines)
    IN /\ currentHeader = RawLines(lines, last)
       /\ result.value = join(newMessageLines, CRLF)
       /\ Len(newMessageLines) <= last - 1
       /\ \A n \in 1..Len(newMessageLines) :
             LET o == newMessageLines[n]
             IN /\ o # ""
                /\ \/ \E i \in 1..(last - 1) : o = lines[i]
                   \/ RewrittenFromLine(o, last)

\* C26 as stated: for input without a blank separator line processMessage
\* returns without error and without veto; the header in the buffer at the end
\* is neither validated nor emitted, and the output has no injected Reply-To
\* and no terminating blank line.
C26_AsStated ==
    Unterminated => result.kind = "string" /\ LastHeaderDropped

\* C26, amended: for input without a blank separator line processMessage never
\* vetoes; it throws exactly when a header before the last one fails to parse,
\* and otherwise returns; the header in the buffer at the end is neither
\* validated nor emitted, and the output has no injected Reply-To and no
\* terminating blank line.
C26_Unterminated ==
    Unterminated =>
        /\ result.kind \in {"string", "throw"}
        /\ (result.kind = "throw") =
              (\E g \in Groups(lines) \ {LastGroup(lines)} : ~Parses(lines, g))
        /\ result.kind = "string" => LastHeaderDropped

\* input of a From header and a last header, without separator: the From line
\* is rewritten, the last header is missing, and no Reply-To was added
C26Witness ==
    /\ Unterminated
    /\ lines = <<"From: \"A > B\" <x@y>", "Subject: hi", " folded">>
    /\ result = Returned("From: \"A ) B (x@y)\" <ok@yourdomain.com>")
    /\ currentHeader = <<"Subject: hi", " folded">>
    /\ origFrom # ""

-----------------------------------------------------------------------------
(* Events without recipients *)

\* the event passes validateSesEvent and its record has no list of recipients,
\* or an empty one
WithoutRecipients ==
    /\ validateSesEvent(event).ok
    /\ LET recipients == prop(event.Records.items[1].ses.receipt, "recipients")
       IN \/ recipients = Undefined
          \/ recipients.type # "array"
          \/ Len(recipients.items) = 0

\* C27: an event that passes validation but has a missing, non-list or empty
\* recipient list does not make the handler raise: the error is caught,
\* reportError is called with neither the S3 object nor a message text,
\* fetchMessage and forwardMessage are not called, and the handler returns
\* STOP_RULE.
C27_NoRecipientsReported ==
    WithoutRecipients =>
        /\ pc \in {"validateSesEvent", "parseRecord", "reportError", "awaitReportError",
                  "returned"}
        /\ CallsOf("fetchMessage") = {} /\ CallsOf("forwardMessage") = {}
        /\ pc \in {"reportError", "awaitReportError", "returned"} =>
              /\ error = "Record did not contain recipients"
              /\ s3Url = "" /\ origMessage = ""
        /\ pc = "returned" =>
              /\ disposition = "STOP_RULE"
              /\ Len(calls) = 1
              /\ calls[1].op = "reportError"
              /\ ReportData(1) =
                    "Reba failed to process a message with the following error:\n\n"
                       \o "  Record did not contain recipients\n\n"

\* the handler has returned for an event whose recipients are not a list
C27Witness ==
    /\ pc = "returned"
    /\ WithoutRecipients
    /\ prop(event.Records.items[1].ses.receipt, "recipients") = Str("x@y")
    /\ disposition = "STOP_RULE"
    /\ CalledOps = {"reportError"}

-----------------------------------------------------------------------------
(* A header block of omitted headers only *)

\* the input has the separator, every header before it parses, and every one
\* of them is omitted for its name or for being an empty Reply-To
AllOmitted ==
    /\ BlankIndex(lines) # 0
    /\ ~startsWithSpace(lines[1])
    /\ \A i \in Starts(InBlock) : Parses(InBlock, i) /\ Omitted(i)

\* C28: when the blank separator line is reached and no header was kept,
\* because the input starts with it or because every header before it is a
\* Return-Path, Sender or DKIM-Signature header or an empty Reply-To,
\* processMessage throws the 'no headers' error, well-formed headers or not.
C28_AllOmittedThrows ==
    (pc = "processMessageDone" /\ AllOmitted) =>
        /\ result = Thrown("Message had no headers (started with blank line)")
        /\ Len(headers) = 0
        /\ newMessageLines = << >>

\* three well-formed headers, all omitted, then the separator and a body
C28Witness ==
    /\ pc = "processMessageDone"
    /\ AllOmitted
    /\ Len(InBlock) = 3
    /\ {"sender: s@y", "Reply-To: "} \subseteq Range(InBlock)
    /\ Len(lines) > 4
    /\ result.kind = "throw"

-----------------------------------------------------------------------------
(* Letter case of the original recipients *)

\* the text with every lower-case letter turned into its capital
\* the capital of each lower-case letter
UpperOf == [c \in Range(LowerOf) |-> CHOOSE u \in DOMAIN LowerOf : LowerOf[u] = c]

RECURSIVE InCapitals(_)
InCapitals(s) ==
    IF s = "" THEN ""
    ELSE (IF Head(s) \in DOMAIN UpperOf THEN UpperOf[Head(s)] ELSE Head(s))
            \o InCapitals(Tail(s))

\* recipient lists that differ from the event's only in letter case
CaseVariants ==
    {EventRecipients,
     [i \in 1..Len(EventRecipients) |-> toLowerCase(EventRecipients[i])],
     [i \in 1..Len(EventRecipients) |-> InCapitals(EventRecipients[i])]}

\* what parseRecord and processRules give for the event's record with the
\* given recipients
ResolvedFor(recipients) ==
    LET record == [event.Records.items[1] EXCEPT
                      !.ses.receipt.recipients =
                          Arr([i \in 1..Len(recipients) |-> Str(recipients[i])])]
    IN processRules(parseRecord(record).value[2], subject, config).value

\* C29: rule resolution runs on the lower-cased recipients of the event, so an
\* event whose recipients differ only in letter case resolves to the same
\* target list and primary recipient; the primary recipient, the Source of
\* forwardMessage and the address in the rewritten From header are lower-case.
C29_LowerCased ==
    /\ (pc = "processRules" \/ Resolved) =>
          origRecipients = [i \in 1..Len(EventRecipients) |-> toLowerCase(EventRecipients[i])]
    /\ Resolved =>
          /\ \A v \in CaseVariants : ResolvedFor(v) = <<newRecipients, firstOrigRecipient>>
          /\ firstOrigRecipient = toLowerCase(firstOrigRecipient)
    /\ \A n \in CallsOf("forwardMessage") :
          LET params == calls[n].params
          IN /\ params.Source = toLowerCase(params.Source)
             /\ SubSeq(origMessage, 1, 5) = "From:" =>
                   Contains(params.RawMessage.Data,
                            "\" <" \o toLowerCase(params.Source) \o ">" \o CRLF)

\* a message was forwarded for a recipient received with capitals
C29Witness ==
    /\ pc = "returned"
    /\ Resolved
    /\ EventRecipients = <<"Abuse@YourDomain.com">>
    /\ config.rules = <<HostRule>>
    /\ firstOrigRecipient = "abuse@yourdomain.com"
    /\ CallsOf("forwardMessage") # {}
    /\ SubSeq(origMessage, 1, 5) = "From:"

-----------------------------------------------------------------------------
(* Conjunction of match criteria *)

\* every criterion the rule declares holds for the recipient
AllDeclaredHold(rule, r) ==
    /\ rule.matchExact # "" => r = rule.matchExact
    /\ rule.matchHost # "" => HostPart(r) = rule.matchHost /\ includes(r, "@")
    /\ rule.matchPattern.type # "undefined" => regexMatch(r, rule.matchPattern)

\* the configuration without the rules that declare no criterion
WithoutUndeclared == [config EXCEPT !.rules = SelectSeq(config.rules, HasCriterion)]

\* C30: the rule a callback of processRules stops at declares a criterion and
\* the recipient satisfies every criterion it declares; a rule that declares
\* none is never the rule stopped at, and processRules returns what it returns
\* for the rule list without such rules.
C30_CriteriaConjunction ==
    /\ (AfterCallback /\ matched) =>
          /\ HasCriterion(config.rules[ruleIndex])
          /\ AllDeclaredHold(config.rules[ruleIndex], origRecipients[recipientIndex])
    /\ pc = "processRulesDone" =>
          processRules(origRecipients, subject, WithoutUndeclared).value
              = <<newRecipients, firstOrigRecipient>>

\* a rule without criteria was passed over, and the rule with two criteria
\* refused a recipient of its host and accepted one that also fits its pattern
C30Witness ==
    /\ pc = "processRulesDone"
    /\ config.rules = <<NoCriteriaRule, TwoCriteriaRule>>
    /\ origRecipients = <<"ok@yourdomain.com", "abuse@yourdomain.com">>
    /\ matched
    /\ ruleIndex = 2
    /\ newRecipients = <<Buddy>>
    /\ firstOrigRecipient = "abuse@yourdomain.com"
=============================================================================
